---- MODULE Spec2Model ----
(***************************************************************************)
(* Model of the modem fleet coordinator (MultiModemManager) and of the     *)
(* AT command engine (ModemManager._send_at_command) of the SIM card       *)
(* management backend.                                                     *)
(*                                                                         *)
(* Spec      the coordinator: asyncio tasks calling connect_modem,         *)
(*           disconnect_modem, the per-modem operations, detect_modems,    *)
(*           get_all_modems_status and cleanup, interleaved at the await   *)
(*           points of the code.                                           *)
(* SpecFair  Spec with the fairness of the asyncio event loop.             *)
(* SpecSend  one call of _send_at_command against a scripted modem.        *)
(* SpecSession  one ModemManager session running send_sms, send_ussd,      *)
(*           get_balance, get_sim_info, get_status, the connection         *)
(*           sequence and close against a scripted modem.                  *)
(* SpecCalc  the conversions of the code (signal percentage, the USSD text *)
(*           codec, the number normalization of send_sms) applied to       *)
(*           inputs drawn from bounded sets.                               *)
(***************************************************************************)
EXTENDS Integers, Sequences, FiniteSets, TLC

VARIABLES
    comports,          \* serial.tools.list_ports.comports(): the ports present
    modems,            \* MultiModemManager.modems (dict, insertion ordered)
    modem_info,        \* MultiModemManager.modem_info (dict id -> ModemInfo)
    active_modem_ids,  \* MultiModemManager.active_modem_ids (list)
    lock,              \* MultiModemManager._lock (asyncio.Lock): holder, FIFO waiters
    task,              \* per asyncio task: position in the handler it runs
    overlap,           \* pairs of tasks whose current calls overlapped in time
    eng,               \* one _send_at_command call (SpecSend)
    session,           \* one ModemManager session and the operation it runs (SpecSession)
    calc               \* one application of a function of the code to an input (SpecCalc)

\* no function applied
NoCalc == [fn |-> "-", src |-> <<>>, arg |-> <<>>, out |-> <<>>]

vars == <<comports, modems, modem_info, active_modem_ids, lock, task, overlap, eng, session, calc>>

(***************************************************************************)
(* Bounds and configured values                                            *)
(***************************************************************************)
\* number of concurrent asyncio tasks calling the coordinator
NumTasks == 2
\* Settings.MAX_CONCURRENT_MODEMS as configured for the model (1..50 allowed, default 10)
MAX_CONCURRENT_MODEMS == 2
\* number of enumerated ports that carry a Huawei modem; one further port does not
NumModemPorts == 3

Tasks == 1..NumTasks

(***************************************************************************)
(* Strings that the code searches are sequences of characters.             *)
(***************************************************************************)
\* Python's `needle in hay`
Contains(hay, needle) ==
    \E i \in 0..(Len(hay) - Len(needle)) :
        \A j \in 1..Len(needle) : hay[i + j] = needle[j]

\* str.lower() on the characters the port descriptions use
LowerChar(c) ==
    CASE c = "H" -> "h" [] c = "U" -> "u" [] c = "A" -> "a" [] c = "W" -> "w"
      [] c = "E" -> "e" [] c = "I" -> "i" [] c = "S" -> "s" [] c = "B" -> "b"
      [] OTHER -> c

Lower(s) == [i \in 1..Len(s) |-> LowerChar(s[i])]

(***************************************************************************)
(* Hardware: the enumerated ports (ListPortInfo: device, vid, description) *)
(***************************************************************************)
huawei_vids == {4817, 6610, 7326}    \* 0x12d1, 0x19d2, 0x1c9e

huawei_keywords ==
    { <<"h","u","a","w","e","i">>, <<"e","3","5","3","1">>, <<"e","3","1","3","1">>,
      <<"e","3","3","7","2">>, <<"e","5","5","7","3">>, <<"e","5","7","8","5">> }

\* a modem port: odd devices are recognised by vendor id, even ones by description
ModemPort(d) ==
    IF d % 2 = 1
    THEN [device |-> d, vid |-> 4817, description |-> <<"U","S","B">>]
    ELSE [device |-> d, vid |-> 1027, description |-> <<"H","U","A","W","E","I">>]

\* a serial adapter that is no modem
OtherPort(d) == [device |-> d, vid |-> 1027, description |-> <<"U","S","B">>]

Hardware ==
    [i \in 1..(NumModemPorts + 1) |->
        IF i <= NumModemPorts THEN ModemPort(i) ELSE OtherPort(i)]

\* a machine with serial adapters and no modem
Adapters == <<OtherPort(1), OtherPort(2)>>

Devices == {Hardware[i].device : i \in 1..Len(Hardware)}

\* a filter that compares the description as it is written
_is_huawei_modem_CaseSensitive(port) ==
    \/ port.vid \in huawei_vids
    \/ \E k \in huawei_keywords : Contains(port.description, k)

_is_huawei_modem(port) ==
    \/ port.vid \in huawei_vids
    \/ \E k \in huawei_keywords : Contains(Lower(port.description), k)

\* modem_id = f"huawei_{port.device}"
ModemId(device) == <<"huawei_", device>>

\* the ids a caller passes: those of the modem ports; an id is unknown to the
\* registry until a detection has recorded it
CallerIds == {ModemId(Hardware[i].device) : i \in 1..NumModemPorts}

(***************************************************************************)
(* Python dict with insertion order, as a sequence of <<key, value>>       *)
(***************************************************************************)
Keys(d) == [i \in 1..Len(d) |-> d[i][1]]
KeySet(d) == {d[i][1] : i \in 1..Len(d)}
Has(d, k) == k \in KeySet(d)
Get(d, k) == (CHOOSE i \in 1..Len(d) : d[i][1] = k) \* index
Val(d, k) == d[Get(d, k)][2]
Put(d, k, v) ==
    IF Has(d, k) THEN [d EXCEPT ![Get(d, k)] = <<k, v>>] ELSE Append(d, <<k, v>>)
Del(d, k) == SelectSeq(d, LAMBDA e : e[1] # k)

\* list.remove(x): removes the first occurrence
ListRemove(l, x) ==
    LET i == CHOOSE j \in 1..Len(l) : l[j] = x /\ \A h \in 1..(j - 1) : l[h] # x
    IN  [j \in 1..(Len(l) - 1) |-> IF j < i THEN l[j] ELSE l[j + 1]]

(***************************************************************************)
(* Exceptions (backend/core/exceptions.py).  A raise statement evaluates   *)
(* the constructor call first; a constructor that is handed more           *)
(* positional arguments than its signature takes raises TypeError instead. *)
(***************************************************************************)
Exc(kind, cause, origin) == [kind |-> kind, cause |-> cause, origin |-> origin]
Ok == Exc("ok", "-", "-")
NoResult == Exc("-", "-", "-")

\* MultiModemException.__init__(self, message, operation=None)
MultiModemExceptionArgs == 1..2

\* ModemLimitExceededException.__init__(self, current_count, max_count), which calls
\* super().__init__(message, "MODEM_LIMIT_EXCEEDED", {...})
ModemLimitExceededException(nargs) ==
    IF nargs = 2 /\ 3 \in MultiModemExceptionArgs
    THEN Exc("ModemLimitExceededException", "-", "-")
    ELSE Exc("TypeError", "-", "ModemLimitExceededException")

\* ModemAlreadyConnectedException.__init__(self, modem_id), which calls
\* super().__init__(message, "MODEM_ALREADY_CONNECTED", {...})
ModemAlreadyConnectedException(nargs) ==
    IF nargs = 1 /\ 3 \in MultiModemExceptionArgs
    THEN Exc("ModemAlreadyConnectedException", "-", "-")
    ELSE Exc("TypeError", "-", "ModemAlreadyConnectedException")

\* ModemNotFoundException.__init__(self, modem_id), which calls
\* super().__init__(message, "MODEM_NOT_FOUND", {...})
ModemNotFoundException(nargs) ==
    IF nargs = 1 /\ 3 \in MultiModemExceptionArgs
    THEN Exc("ModemNotFoundException", "-", "-")
    ELSE Exc("TypeError", "-", "ModemNotFoundException")

\* MultiModemException(f"...: {e}", operation) raised from an `except Exception as e`
MultiModemException(e) == Exc("MultiModemException", e.kind, e.origin)

\* the except clauses of connect_modem: policy exceptions pass, the rest is wrapped
ConnectExcept(e) ==
    IF e.kind \in {"ModemLimitExceededException", "ModemAlreadyConnectedException",
                   "ModemNotFoundException"}
    THEN e ELSE MultiModemException(e)

\* the except clauses of disconnect_modem and of the per-modem operations
NotFoundExcept(e) ==
    IF e.kind = "ModemNotFoundException" THEN e ELSE MultiModemException(e)

(***************************************************************************)
(* Coordinator state                                                       *)
(***************************************************************************)
PerModemOps == {"get_modem_status", "send_modem_sms"}

NoId == <<"-", 0>>

\* a task that runs no handler
IdleTask ==
    [pc |-> "idle", call |-> "-", id |-> NoId, sess |-> "none",
     todo |-> <<>>, found |-> <<>>, probed |-> <<>>, res |-> NoResult]

\* ModemManager after _connect_modem_to_port succeeded (is_initialized, port, open serial)
ModemManager(port) == [port |-> port, serial_open |-> TRUE, is_initialized |-> TRUE]

\* ModemInfo(modem_id, port, connected_at=now, last_activity=now). A timestamp is
\* "now" when no handler has taken a timestamp since, and "earlier" otherwise
ModemInfo(id, port) ==
    [modem_id |-> id, port |-> port, connected_at |-> "now", last_activity |-> "now"]

\* time passes: the registry as it looks to a handler that calls datetime.now()
Earlier(mi) ==
    [k \in DOMAIN mi |-> [mi[k] EXCEPT !.connected_at = "earlier", !.last_activity = "earlier"]]

\* self.modem_info[id].last_activity = datetime.now()
Touch(mi, id) == [Earlier(mi) EXCEPT ![id].last_activity = "now"]

Active(t) == task[t].pc \notin {"idle", "done"}

\* asyncio.Lock: acquire() returns at once iff unlocked and nobody waits
LockFree == lock.holder = {} /\ lock.waiters = <<>>
Held(t) == [lock EXCEPT !.holder = {t}]
Enqueued(t) == [lock EXCEPT !.waiters = Append(@, t)]
\* release(): the first waiter, if any, is woken and owns the lock next
Released ==
    IF lock.waiters = <<>> THEN [holder |-> {}, waiters |-> <<>>]
    ELSE [holder |-> {Head(lock.waiters)}, waiters |-> Tail(lock.waiters)]

\* a call that starts while other calls are in progress overlaps with them
Begin(t) == overlap \cup {{t, u} : u \in {v \in Tasks : v # t /\ Active(v)}}

Init ==
    /\ comports \in {Hardware, Adapters}
    /\ modems = <<>>
    /\ modem_info = <<>>
    /\ active_modem_ids = <<>>
    /\ lock = [holder |-> {}, waiters |-> <<>>]
    /\ task = [t \in Tasks |-> IdleTask]
    /\ overlap = {}
    /\ eng = [pc |-> "off"]
    /\ session = [pc |-> "off"]
    /\ calc = NoCalc

(***************************************************************************)
(* connect_modem                                                           *)
(***************************************************************************)
\* connect_modem without its limit check
ConnectChecks_NoLimit(id) ==
    IF Has(modems, id) THEN ModemAlreadyConnectedException(1)
    ELSE IF id \notin DOMAIN modem_info THEN ModemNotFoundException(1)
    ELSE Ok

\* the three policy checks, in the order of the code; each raise constructs its
\* exception from one positional argument
ConnectChecks(id) ==
    IF Has(modems, id) THEN ModemAlreadyConnectedException(1)
    ELSE IF Len(modems) >= MAX_CONCURRENT_MODEMS THEN ModemLimitExceededException(1)
    ELSE IF id \notin DOMAIN modem_info THEN ModemNotFoundException(1)
    ELSE Ok

\* where a task stands when `await self.connect_modem(id)` has returned or raised r:
\* connect_modem itself is done; a per-modem operation goes on to the session
\* operation, or raises ModemNotFoundException(message) into its own except clauses
AfterConnect(tk, r) ==
    IF tk.call = "connect_modem" THEN [tk EXCEPT !.pc = "done", !.res = r]
    ELSE IF r.kind = "ok" THEN [tk EXCEPT !.pc = "op_wait", !.sess = "open"]
    ELSE [tk EXCEPT !.pc = "done", !.res = NotFoundExcept(ModemNotFoundException(1))]

\* a connect_modem that leaves with the lock when a policy check refuses the call
ConnectEnter_KeepsLock(t, tk) ==
    LET e == ConnectChecks(tk.id) IN
    IF e.kind # "ok"
    THEN /\ task' = [task EXCEPT ![t] = AfterConnect(tk, ConnectExcept(e))]
         /\ lock' = Held(t)
         /\ UNCHANGED <<modems, modem_info, active_modem_ids>>
    ELSE /\ task' = [task EXCEPT ![t] = [tk EXCEPT !.pc = "connecting", !.sess = "open"]]
         /\ lock' = Held(t)
         /\ UNCHANGED <<modems, modem_info, active_modem_ids>>

\* connect_modem from the moment task t owns the lock up to its first suspension
ConnectEnter(t, tk) ==
    LET e == ConnectChecks(tk.id) IN
    IF e.kind # "ok"
    THEN /\ task' = [task EXCEPT ![t] = AfterConnect(tk, ConnectExcept(e))]
         /\ lock' = Released
         /\ UNCHANGED <<modems, modem_info, active_modem_ids>>
    ELSE \/ \* serial.Serial(...) raises: SerialPortException, wrapped twice
            /\ task' = [task EXCEPT ![t] = AfterConnect(tk,
                   ConnectExcept(MultiModemException(Exc("SerialPortException", "SerialException", "-"))))]
            /\ lock' = Released
            /\ UNCHANGED <<modems, modem_info, active_modem_ids>>
         \/ \* the port opens, AT is written, the task suspends in _send_at_command
            /\ task' = [task EXCEPT ![t] = [tk EXCEPT !.pc = "connecting", !.sess = "open"]]
            /\ lock' = Held(t)
            /\ UNCHANGED <<modems, modem_info, active_modem_ids>>

\* connect_modem(id), or a per-modem operation on an id that is not in self.modems
CallConnect(t, id, call) ==
    /\ task[t].pc = "idle"
    /\ call \in PerModemOps => ~Has(modems, id)
    /\ overlap' = Begin(t)
    /\ UNCHANGED <<comports, eng, session, calc>>
    /\ LET tk == [IdleTask EXCEPT !.call = call, !.id = id] IN
       IF LockFree THEN ConnectEnter(t, tk)
       ELSE /\ task' = [task EXCEPT ![t] = [tk EXCEPT !.pc = "connect_wait"]]
            /\ lock' = Enqueued(t)
            /\ UNCHANGED <<modems, modem_info, active_modem_ids>>

ConnectGranted(t) ==
    /\ task[t].pc = "connect_wait"
    /\ lock.holder = {t}
    /\ ConnectEnter(t, task[t])
    /\ UNCHANGED <<comports, eng, session, calc, overlap>>

\* the rest of _connect_modem_to_port and of connect_modem
ConnectFinish(t) ==
    LET tk == task[t]
        port == modem_info[tk.id].port
    IN
    /\ tk.pc = "connecting"
    /\ lock' = Released
    /\ UNCHANGED <<comports, eng, session, calc, overlap>>
    /\ \/ \* AT answered OK; the configuration batch and the info queries never raise
          /\ modems' = Put(modems, tk.id, ModemManager(port))
          /\ active_modem_ids' = Append(active_modem_ids, tk.id)
          /\ modem_info' = [Earlier(modem_info) EXCEPT ![tk.id].connected_at = "now",
                                                       ![tk.id].last_activity = "now"]
          /\ task' = [task EXCEPT ![t] = AfterConnect([tk EXCEPT !.sess = "none"], Ok)]
       \/ \* no OK to AT (other answer, timeout, I/O error): SerialPortException,
          \* wrapped twice. Nothing closes the port: the dropped ModemManager, which
          \* the traceback of the exception keeps alive, still has it open (sess)
          /\ task' = [task EXCEPT ![t] = AfterConnect(tk,
                 ConnectExcept(MultiModemException(Exc("SerialPortException", "-", "-"))))]
          /\ UNCHANGED <<modems, modem_info, active_modem_ids>>

(***************************************************************************)
(* disconnect_modem and cleanup                                            *)
(***************************************************************************)
\* the coordinator maps and the tasks, as one value that a handler transforms
Fleet == [modems |-> modems, modem_info |-> modem_info,
          active_modem_ids |-> active_modem_ids, task |-> task]

\* ModemManager.close() on the session of id and `del self.modems[id]` of the entry
\* in the given slot: every task that runs an operation on that session object now
\* holds a closed session, and a dict iterator that has passed the slot has one live
\* entry less behind it
CloseSession(tasks, id, slot) ==
    [u \in Tasks |->
        LET tk == IF tasks[u].pc \in {"op_run", "op_wait", "all_wait"}
                     /\ tasks[u].id = id /\ tasks[u].sess = "open"
                  THEN [tasks[u] EXCEPT !.sess = "closed"] ELSE tasks[u]
        IN  IF tk.pc = "all_wait" /\ slot <= tk.todo[1]
            THEN [tk EXCEPT !.todo[1] = @ - 1] ELSE tk]

\* the body of disconnect_modem under the lock: the exception it raises, or Ok
DisconnectResult(f, id) ==
    IF ~Has(f.modems, id) THEN NotFoundExcept(ModemNotFoundException(1)) ELSE Ok

\* disconnect_modem that also forgets the registry entry
DisconnectBody_DropsEntry(f, id) ==
    IF ~Has(f.modems, id) THEN f
    ELSE [modems |-> Del(f.modems, id),
          active_modem_ids |->
              IF \E i \in 1..Len(f.active_modem_ids) : f.active_modem_ids[i] = id
              THEN ListRemove(f.active_modem_ids, id) ELSE f.active_modem_ids,
          modem_info |-> [k \in DOMAIN f.modem_info \ {id} |-> f.modem_info[k]],
          task |-> CloseSession(f.task, id, Get(f.modems, id))]

\* disconnect_modem that leaves the id in active_modem_ids
DisconnectBody_KeepsActiveId(f, id) ==
    IF ~Has(f.modems, id) THEN f
    ELSE [modems |-> Del(f.modems, id),
          active_modem_ids |-> f.active_modem_ids,
          modem_info |->
              IF id \in DOMAIN f.modem_info
              THEN Touch(f.modem_info, id)
              ELSE f.modem_info,
          task |-> CloseSession(f.task, id, Get(f.modems, id))]

DisconnectBody(f, id) ==
    IF ~Has(f.modems, id) THEN f
    ELSE [modems |-> Del(f.modems, id),
          active_modem_ids |->
              IF \E i \in 1..Len(f.active_modem_ids) : f.active_modem_ids[i] = id
              THEN ListRemove(f.active_modem_ids, id) ELSE f.active_modem_ids,
          modem_info |->
              IF id \in DOMAIN f.modem_info
              THEN Touch(f.modem_info, id)
              ELSE f.modem_info,
          task |-> CloseSession(f.task, id, Get(f.modems, id))]

\* a cleanup that returns after its first disconnect_modem
CleanupLoop_Stops(f, todo) == <<f, todo>>

\* cleanup's loop over list(self.modems.keys()) for as long as the lock is granted
\* without waiting: <<fleet, ids not yet handled>>
RECURSIVE CleanupLoop(_, _)
CleanupLoop(f, todo) ==
    IF todo = <<>> THEN <<f, todo>>
    ELSE CleanupLoop(DisconnectBody(f, Head(todo)), Tail(todo))

SetFleet(f) ==
    /\ modems' = f.modems
    /\ modem_info' = f.modem_info
    /\ active_modem_ids' = f.active_modem_ids

\* disconnect_modem from the moment task t owns the lock: it never suspends. cleanup
\* swallows the outcome and goes on: with the lock free it runs to its end, otherwise
\* it waits for the lock at the next id
DisconnectEnter(t, tk) ==
    LET r == DisconnectResult(Fleet, tk.id)
        f == DisconnectBody(Fleet, tk.id)
    IN
    IF tk.call = "disconnect_modem"
    THEN /\ SetFleet(f)
         /\ task' = [f.task EXCEPT ![t] = [tk EXCEPT !.pc = "done", !.res = r]]
         /\ lock' = Released
    ELSE IF tk.todo = <<>>
    THEN /\ SetFleet(f)
         /\ task' = [f.task EXCEPT ![t] = [tk EXCEPT !.pc = "done", !.res = Ok, !.id = NoId]]
         /\ lock' = Released
    ELSE IF lock.waiters = <<>>
    THEN LET g == CleanupLoop(f, tk.todo)[1] IN
         /\ SetFleet(g)
         /\ task' = [g.task EXCEPT ![t] = [tk EXCEPT !.pc = "done", !.res = Ok,
                                                      !.id = NoId, !.todo = <<>>]]
         /\ lock' = Released
    ELSE /\ SetFleet(f)
         /\ task' = [f.task EXCEPT ![t] = [tk EXCEPT !.pc = "disconnect_wait",
                                                      !.id = Head(tk.todo), !.todo = Tail(tk.todo)]]
         /\ lock' = [holder |-> {Head(lock.waiters)}, waiters |-> Append(Tail(lock.waiters), t)]

CallDisconnect(t, id) ==
    /\ task[t].pc = "idle"
    /\ overlap' = Begin(t)
    /\ UNCHANGED <<comports, eng, session, calc>>
    /\ LET tk == [IdleTask EXCEPT !.call = "disconnect_modem", !.id = id] IN
       IF LockFree THEN DisconnectEnter(t, tk)
       ELSE /\ task' = [task EXCEPT ![t] = [tk EXCEPT !.pc = "disconnect_wait"]]
            /\ lock' = Enqueued(t)
            /\ UNCHANGED <<modems, modem_info, active_modem_ids>>

DisconnectGranted(t) ==
    /\ task[t].pc = "disconnect_wait"
    /\ lock.holder = {t}
    /\ DisconnectEnter(t, task[t])
    /\ UNCHANGED <<comports, eng, session, calc, overlap>>

cleanup(t) ==
    /\ task[t].pc = "idle"
    /\ overlap' = Begin(t)
    /\ UNCHANGED <<comports, eng, session, calc>>
    /\ LET ids == Keys(modems)
           tk == [IdleTask EXCEPT !.call = "cleanup"]
       IN
       IF ids = <<>>
       THEN /\ task' = [task EXCEPT ![t] = [tk EXCEPT !.pc = "done", !.res = Ok]]
            /\ UNCHANGED <<modems, modem_info, active_modem_ids, lock>>
       ELSE IF LockFree
       THEN DisconnectEnter(t, [tk EXCEPT !.id = Head(ids), !.todo = Tail(ids)])
       ELSE /\ task' = [task EXCEPT ![t] = [tk EXCEPT !.pc = "disconnect_wait",
                                                       !.id = Head(ids), !.todo = Tail(ids)]]
            /\ lock' = Enqueued(t)
            /\ UNCHANGED <<modems, modem_info, active_modem_ids>>

(***************************************************************************)
(* Per-modem operations (get_modem_status, send_modem_sms, ...): the       *)
(* coordinator takes no lock; the session operation is a sequence of       *)
(* _send_at_command calls, each of which suspends between writing the      *)
(* command and reading its terminal line.                                  *)
(***************************************************************************)
\* a per-modem operation that runs under the coordinator lock
CallOp_Locks(t, id, call) ==
    /\ task[t].pc = "idle"
    /\ call \in PerModemOps
    /\ Has(modems, id)
    /\ LockFree
    /\ lock' = Held(t)
    /\ task' = [task EXCEPT ![t] = [IdleTask EXCEPT !.call = call, !.id = id,
                                                    !.pc = "op_wait", !.sess = "open"]]
    /\ overlap' = Begin(t)
    /\ UNCHANGED <<comports, eng, session, calc, modems, modem_info, active_modem_ids>>

\* the operation on an id that is in self.modems: modem_manager = self.modems[id],
\* and the session operation runs up to the write of its first command
CallOp(t, id, call) ==
    /\ task[t].pc = "idle"
    /\ call \in PerModemOps
    /\ Has(modems, id)
    /\ task' = [task EXCEPT ![t] = [IdleTask EXCEPT !.call = call, !.id = id,
                                                    !.pc = "op_wait", !.sess = "open"]]
    /\ overlap' = Begin(t)
    /\ UNCHANGED <<comports, eng, session, calc, modems, modem_info, active_modem_ids, lock>>

\* _send_at_command: reset_input_buffer and write of the command
SessionWrite(t) ==
    /\ task[t].pc = "op_run"
    /\ task[t].sess = "open"
    /\ task' = [task EXCEPT ![t].pc = "op_wait"]
    /\ UNCHANGED <<comports, eng, session, calc, modems, modem_info, active_modem_ids, lock, overlap>>

\* _send_at_command: the terminal line is read, or the attempts are used up
SessionResponse(t) ==
    /\ task[t].pc = "op_wait"
    /\ task' = [task EXCEPT ![t].pc = "op_run"]
    /\ UNCHANGED <<comports, eng, session, calc, modems, modem_info, active_modem_ids, lock, overlap>>

\* what the session operation gives back: get_status returns a status whatever
\* happens; send_sms returns True or raises SmsSendException, and raises on a closed
\* session
SessionOutcomes(call, sess) ==
    IF call = "get_modem_status" THEN {Ok}
    ELSE IF sess = "open" THEN {Ok, Exc("SmsSendException", "-", "-")}
    ELSE {Exc("SmsSendException", "-", "-")}

\* the session operation ends; the coordinator stamps last_activity and returns, or
\* wraps the failure
OpReturn(t) ==
    LET tk == task[t] IN
    /\ tk.pc = "op_run"
    /\ \E r \in SessionOutcomes(tk.call, tk.sess) :
          /\ task' = [task EXCEPT ![t] = [tk EXCEPT !.pc = "done", !.sess = "none",
                                                    !.res = IF r.kind = "ok" THEN r ELSE NotFoundExcept(r)]]
          /\ modem_info' =
                IF r.kind = "ok" /\ tk.id \in DOMAIN modem_info
                THEN Touch(modem_info, tk.id)
                ELSE modem_info
    /\ UNCHANGED <<comports, eng, session, calc, modems, active_modem_ids, lock, overlap>>

(***************************************************************************)
(* get_all_modems_status: `for modem_id, modem_manager in                  *)
(* self.modems.items()` with an await inside; it takes no lock.  The dict  *)
(* iterator keeps the size of the dict at its creation, the number of      *)
(* entries it may still yield, and its position in the entries, which are  *)
(* kept in insertion order (todo = <<live entries passed, entries left,    *)
(* size at creation>>); found = the ids that have a status.                *)
(***************************************************************************)
\* next() of the iterator, then the loop body up to its await, or the return
AllAdvance(tk, pos, left, used) ==
    IF Len(modems) # used
    THEN \* RuntimeError: dictionary changed size during iteration
         [tk EXCEPT !.pc = "done", !.sess = "none", !.todo = <<>>,
                    !.res = MultiModemException(Exc("RuntimeError", "-", "-"))]
    ELSE IF pos >= Len(modems)
    THEN \* StopIteration: MultiModemStatus(total_modems, connected_modems, modems)
         [tk EXCEPT !.pc = "done", !.sess = "none", !.todo = <<>>, !.id = NoId,
                    !.res = IF Len(modems) > Cardinality(DOMAIN modem_info)
                            THEN MultiModemException(Exc("ValidationError", "-", "-"))
                            ELSE Ok]
    ELSE IF left = 0
    THEN \* RuntimeError: dictionary keys changed during iteration
         [tk EXCEPT !.pc = "done", !.sess = "none", !.todo = <<>>,
                    !.res = MultiModemException(Exc("RuntimeError", "-", "-"))]
    ELSE \* `await modem_manager.get_status()` suspends in _send_at_command
         [tk EXCEPT !.pc = "all_wait", !.id = modems[pos + 1][1], !.sess = "open",
                    !.todo = <<pos + 1, left - 1, used>>]

get_all_modems_status(t) ==
    /\ task[t].pc = "idle"
    /\ task' = [task EXCEPT ![t] =
                   AllAdvance([IdleTask EXCEPT !.call = "get_all_modems_status"],
                              0, Len(modems), Len(modems))]
    /\ overlap' = Begin(t)
    /\ UNCHANGED <<comports, eng, session, calc, modems, modem_info, active_modem_ids, lock>>

\* get_status of the current session returns (it never raises): statuses[modem_id]
\* is set, last_activity is stamped, and the loop goes on
AllStatusReturn(t) ==
    LET tk == task[t] IN
    /\ tk.pc = "all_wait"
    /\ task' = [task EXCEPT ![t] =
                   AllAdvance([tk EXCEPT !.found =
                                  IF \E i \in 1..Len(@) : @[i] = tk.id THEN @ ELSE Append(@, tk.id)],
                              tk.todo[1], tk.todo[2], tk.todo[3])]
    /\ modem_info' = IF tk.id \in DOMAIN modem_info THEN Touch(modem_info, tk.id)
                     ELSE modem_info
    /\ UNCHANGED <<comports, eng, session, calc, modems, active_modem_ids, lock, overlap>>

(***************************************************************************)
(* detect_modems                                                           *)
(***************************************************************************)
\* the ports from index i on, up to the first one that passes _is_huawei_modem
RECURSIVE NextCandidate(_, _)
NextCandidate(ports, i) ==
    IF i > Len(ports) THEN i
    ELSE IF _is_huawei_modem(ports[i]) THEN i
    ELSE NextCandidate(ports, i + 1)

\* detect_modems up to its next suspension: a probe (_test_at_commands) of the next
\* candidate port, or the end of the port list
DetectAdvance(t, tk, ports, i) ==
    LET n == NextCandidate(ports, i) IN
    IF n > Len(ports)
    THEN [tk EXCEPT !.pc = "done", !.res = Ok, !.todo = <<>>, !.id = NoId]
    ELSE [tk EXCEPT !.pc = "probing", !.todo = <<n>>, !.id = ModemId(ports[n].device)]

detect_modems(t) ==
    /\ task[t].pc = "idle"
    /\ task' = [task EXCEPT ![t] =
                   DetectAdvance(t, [IdleTask EXCEPT !.call = "detect_modems"], comports, 1)]
    /\ overlap' = Begin(t)
    /\ UNCHANGED <<comports, eng, session, calc, modems, modem_info, active_modem_ids, lock>>

\* a detection that keeps in the registry only the modem it has just found
ProbeDone_Replaces(t, responsive) ==
    LET tk == [task[t] EXCEPT !.probed = Append(@, <<comports[task[t].todo[1]].device, responsive>>)]
        n == tk.todo[1]
        port == comports[n]
    IN
    /\ task[t].pc = "probing"
    /\ IF responsive
       THEN /\ modem_info' = (tk.id :> ModemInfo(tk.id, port.device))
            /\ task' = [task EXCEPT ![t] =
                           DetectAdvance(t, [tk EXCEPT !.found = Append(@, tk.id)], comports, n + 1)]
       ELSE /\ modem_info' = modem_info
            /\ task' = [task EXCEPT ![t] = DetectAdvance(t, tk, comports, n + 1)]
    /\ UNCHANGED <<comports, eng, session, calc, modems, active_modem_ids, lock, overlap>>

\* the probe of the current port ends: responsive or not (probed = the ports that
\* _test_at_commands was called for, each with what it returned)
ProbeDone(t, responsive) ==
    LET tk == [task[t] EXCEPT !.probed = Append(@, <<comports[task[t].todo[1]].device, responsive>>)]
        n == tk.todo[1]
        port == comports[n]
    IN
    /\ task[t].pc = "probing"
    /\ IF responsive
       THEN /\ modem_info' = (tk.id :> ModemInfo(tk.id, port.device)) @@ Earlier(modem_info)
            /\ task' = [task EXCEPT ![t] =
                           DetectAdvance(t, [tk EXCEPT !.found = Append(@, tk.id)], comports, n + 1)]
       ELSE /\ modem_info' = modem_info
            /\ task' = [task EXCEPT ![t] = DetectAdvance(t, tk, comports, n + 1)]
    /\ UNCHANGED <<comports, eng, session, calc, modems, active_modem_ids, lock, overlap>>

(***************************************************************************)
(* The caller takes the result; the task is free for the next call.        *)
(***************************************************************************)
Return(t) ==
    /\ task[t].pc = "done"
    /\ task' = [task EXCEPT ![t] = IdleTask]
    /\ overlap' = {p \in overlap : t \notin p}
    /\ UNCHANGED <<comports, eng, session, calc, modems, modem_info, active_modem_ids, lock>>

Next ==
    \/ \E t \in Tasks, id \in CallerIds : CallConnect(t, id, "connect_modem")
    \/ \E t \in Tasks, id \in CallerIds, op \in PerModemOps : CallConnect(t, id, op)
    \/ \E t \in Tasks : ConnectGranted(t)
    \/ \E t \in Tasks : ConnectFinish(t)
    \/ \E t \in Tasks, id \in CallerIds : CallDisconnect(t, id)
    \/ \E t \in Tasks : DisconnectGranted(t)
    \/ \E t \in Tasks : cleanup(t)
    \/ \E t \in Tasks, id \in CallerIds, op \in PerModemOps : CallOp(t, id, op)
    \/ \E t \in Tasks : SessionWrite(t)
    \/ \E t \in Tasks : SessionResponse(t)
    \/ \E t \in Tasks : OpReturn(t)
    \/ \E t \in Tasks : get_all_modems_status(t)
    \/ \E t \in Tasks : AllStatusReturn(t)
    \/ \E t \in Tasks : detect_modems(t)
    \/ \E t \in Tasks, responsive \in BOOLEAN : ProbeDone(t, responsive)
    \/ \E t \in Tasks : Return(t)

Spec == Init /\ [][Next]_vars

\* the event loop resumes every task that is ready: the waiter that was handed the
\* lock runs, and a connect sequence ends because every command attempt of
\* _send_at_command ends with a response or with its timeout
Fairness ==
    \A t \in Tasks :
        /\ WF_vars(ConnectGranted(t))
        /\ WF_vars(ConnectFinish(t))
        /\ WF_vars(DisconnectGranted(t))

SpecFair == Init /\ [][Next]_vars /\ Fairness

(***************************************************************************)
(* ModemManager._send_at_command(command, timeout, retries)                *)
(*                                                                         *)
(* Time is counted in polls: one unit is one `await asyncio.sleep(0.1)` of *)
(* the read loop.  The modem is scripted by the environment: at every poll *)
(* it has nothing waiting, or one line.                                    *)
(***************************************************************************)
\* largest timeout argument, in polls; 0 stands for None (and for any falsy value)
MaxTimeout == 2
\* largest retries argument
MaxRetries == 3
\* Settings.MODEM_OPERATION_TIMEOUT as configured for the model, in polls
MODEM_OPERATION_TIMEOUT == 3
\* the longest that one pass of the read loop takes, in polls (sleep(0.1) sleeps
\* at least that long, and readline blocks)
MaxPollDelay == 2

Commands == { <<"A","T">>, <<"A","T","+","C","M","G","S","=","1">> }

\* lines the modem may send: final results, the compose prompt, data, an empty line
ModemLines ==
    { <<"O","K">>, <<"E","R","R","O","R">>, <<"S","E","N","D"," ","F","A","I","L">>,
      <<">"," ">>, <<"+","C","S","Q",":"," ","9">>, <<>> }

\* if "OK" in line or "ERROR" in line or "FAIL" in line: break
EndOfResponse(line) ==
    \/ Contains(line, <<"O","K">>)
    \/ Contains(line, <<"E","R","R","O","R">>)
    \/ Contains(line, <<"F","A","I","L">>)

\* timeout = timeout or self.settings.MODEM_OPERATION_TIMEOUT
EffectiveTimeout(timeout) == IF timeout = 0 THEN MODEM_OPERATION_TIMEOUT ELSE timeout

\* a wait after the last attempt as well
WaitBeforeRetry_AfterLast(attempt, retries) == attempt < retries

\* if attempt < retries - 1: await asyncio.sleep(1)
WaitBeforeRetry(attempt, retries) == attempt < retries - 1

\* for attempt in range(retries)
InRange(attempt, retries) == attempt < retries

\* while loop.time() - start_time < timeout
WithinTimeout(elapsed, timeout) == elapsed < timeout

\* a call that has not started
EngCall(command, timeout, retries, open) ==
    [pc |-> "call", command |-> command, timeout_arg |-> timeout, timeout |-> timeout,
     retries |-> retries, serial_open |-> open,
     attempt |-> 0, elapsed |-> 0, response |-> <<>>, last_error |-> "None",
     \* history: attempts started, command writes, backoff sleeps, attempts that
     \* timed out and the polls they waited, result
     attempts |-> 0, writes |-> 0, sleeps |-> 0, timeouts |-> 0, waited |-> 0, result |-> "-"]

InitSend ==
    /\ comports = Hardware
    /\ modems = <<>>
    /\ modem_info = <<>>
    /\ active_modem_ids = <<>>
    /\ lock = [holder |-> {}, waiters |-> <<>>]
    /\ task = [t \in Tasks |-> IdleTask]
    /\ overlap = {}
    /\ eng \in {EngCall(c, tm, r, o) : c \in Commands, tm \in 0..MaxTimeout,
                                       r \in 0..MaxRetries, o \in BOOLEAN}
    /\ session = [pc |-> "off"]
    /\ calc = NoCalc

SendUnchanged ==
    UNCHANGED <<comports, modems, modem_info, active_modem_ids, lock, task, overlap, session, calc>>

\* for attempt in range(retries): the next attempt starts, or the loop is over and
\* last_error is raised (raise None is a TypeError)
NextAttempt(e, attempt) ==
    IF InRange(attempt, e.retries)
    THEN [e EXCEPT !.pc = "attempt", !.attempt = attempt, !.attempts = @ + 1]
    ELSE [e EXCEPT !.pc = "done",
                   !.result = IF e.last_error = "None" THEN "TypeError" ELSE e.last_error]

\* the except clauses of an attempt, and the wait before the next one
AttemptFailed(e, error) ==
    LET f == [e EXCEPT !.last_error = error] IN
    IF WaitBeforeRetry(e.attempt, e.retries)
    THEN [f EXCEPT !.pc = "backoff", !.sleeps = @ + 1]
    ELSE NextAttempt(f, e.attempt + 1)

\* entry: the connection check and the default timeout
SendEnter ==
    /\ eng.pc = "call"
    /\ eng' = IF ~eng.serial_open
              THEN [eng EXCEPT !.pc = "done", !.result = "ModemNotConnectedException"]
              ELSE NextAttempt([eng EXCEPT !.timeout = EffectiveTimeout(eng.timeout_arg)], 0)
    /\ SendUnchanged

\* reset_input_buffer(); write(command + CR LF); response = ""; start_time = now
AttemptWrite ==
    /\ eng.pc = "attempt"
    /\ eng' = [eng EXCEPT !.pc = "reading", !.writes = @ + 1, !.response = <<>>, !.elapsed = 0]
    /\ SendUnchanged

\* a serial call of the attempt raises (reset_input_buffer, write, in_waiting, readline)
AttemptIOError ==
    /\ eng.pc \in {"attempt", "reading"}
    /\ eng.pc = "reading" => WithinTimeout(eng.elapsed, eng.timeout)
    /\ eng' = AttemptFailed(eng, "ATCommandException")
    /\ SendUnchanged

\* one pass of the read loop with nothing waiting
PollNothing ==
    /\ eng.pc = "reading"
    /\ WithinTimeout(eng.elapsed, eng.timeout)
    /\ \E d \in 1..MaxPollDelay : eng' = [eng EXCEPT !.elapsed = @ + d]
    /\ SendUnchanged

\* one pass of the read loop with a line waiting
PollLine(line) ==
    /\ eng.pc = "reading"
    /\ WithinTimeout(eng.elapsed, eng.timeout)
    /\ LET e == [eng EXCEPT !.response = @ \o line \o <<"\n">>] IN
       IF EndOfResponse(line)
       THEN eng' = [e EXCEPT !.pc = "done", !.result = "ok"]
       ELSE \E d \in 1..MaxPollDelay : eng' = [e EXCEPT !.elapsed = @ + d]
    /\ SendUnchanged

\* the else branch of the read loop: raise ATCommandTimeoutException(command, timeout)
AttemptTimeout ==
    /\ eng.pc = "reading"
    /\ ~WithinTimeout(eng.elapsed, eng.timeout)
    /\ eng' = AttemptFailed([eng EXCEPT !.timeouts = @ + 1, !.waited = @ + eng.elapsed],
                            "ATCommandTimeoutException")
    /\ SendUnchanged

\* await asyncio.sleep(1) is over
RetryAfterWait ==
    /\ eng.pc = "backoff"
    /\ eng' = NextAttempt(eng, eng.attempt + 1)
    /\ SendUnchanged

NextSend ==
    \/ SendEnter
    \/ AttemptWrite
    \/ AttemptIOError
    \/ PollNothing
    \/ \E line \in ModemLines : PollLine(line)
    \/ AttemptTimeout
    \/ RetryAfterWait

SpecSend == InitSend /\ [][NextSend]_vars

(***************************************************************************)
(* One ModemManager session (SpecSession): send_sms, send_ussd,            *)
(* get_balance and get_sim_info.  Every `await self._send_at_command(...)` *)
(* is a suspension; the scripted modem decides what the call gives back:   *)
(* a response (the lines read up to a line with OK, ERROR or FAIL) or the  *)
(* exception raised after the last attempt.                                *)
(***************************************************************************)
\* response += line + "\n" for every line read
RECURSIVE ResponseText(_)
ResponseText(lines) ==
    IF lines = <<>> THEN <<>> ELSE Head(lines) \o <<"\n">> \o ResponseText(Tail(lines))

\* Python's `needle in response`
InResponse(needle, lines) == Contains(ResponseText(lines), needle)

\* the responses of the scripted modem, as the lines read
ModemResponses ==
    { << <<"O","K">> >>,
      << <<"E","R","R","O","R">> >>,
      << <<">"," ">>, <<"O","K">> >>,
      << <<"+","C","P","I","N",":"," ","R","E","A","D","Y">>, <<"O","K">> >>,
      << <<"+","C","U","S","D",":"," ","0",",","\"","B","a","l","a","n","c","e","\"",",","1","5">>, <<"O","K">> >>,
      << <<"+","C","U","S","D",":"," ","0",",","\"","H","i","\"",",","1","5">>, <<"O","K">> >>,
      << <<"+","C","U","S","D",":"," ","2",",","\"","\"",",","1","5">>, <<"O","K">> >> }

\* what a _send_at_command call on an open transport gives its caller
Outcomes ==
    [kind : {"response"}, lines : ModemResponses]
    \cup [kind : {"ATCommandTimeoutException", "ATCommandException"}, lines : {<<>>}]

NoOutcome == [kind |-> "-", lines |-> <<>>]

Raised(o) == o.kind # "response"

\* response.split('\n'): the lines read, and the empty string after the last "\n"
SplitLines(lines) == Append(lines, <<>>)

Digits == {"0", "1", "2", "3", "4", "5", "6", "7", "8", "9"}
Whitespace == {" ", "\t"}

\* the first index from i on whose character is not in chars
RECURSIVE SkipChars(_, _, _)
SkipChars(line, i, chars) ==
    IF i <= Len(line) /\ line[i] \in chars THEN SkipChars(line, i + 1, chars) ELSE i

\* the first index from i on that holds character c, or Len(line) + 1
RECURSIVE FindChar(_, _, _)
FindChar(line, i, c) ==
    IF i > Len(line) \/ line[i] = c THEN i ELSE FindChar(line, i + 1, c)

StartsAt(line, i, literal) ==
    /\ i + Len(literal) - 1 <= Len(line)
    /\ \A j \in 1..Len(literal) : line[i + j - 1] = literal[j]

\* the pattern \+CUSD:\s*\d+,"([^"]*)" matched at index i of line
CusdMatchAt(line, i) ==
    LET j == SkipChars(line, i + 6, Whitespace)
        k == SkipChars(line, j, Digits)
        q == FindChar(line, k + 2, "\"")
        ok == /\ StartsAt(line, i, <<"+","C","U","S","D",":">>)
              /\ k > j
              /\ StartsAt(line, k, <<",", "\"">>)
              /\ q <= Len(line)
    IN  [ok |-> ok, group1 |-> IF ok THEN SubSeq(line, k + 2, q - 1) ELSE <<>>]

\* re.search(r'\+CUSD:\s*\d+,"([^"]*)"', line): the leftmost match
CusdSearch(line) ==
    IF \E i \in 1..Len(line) : CusdMatchAt(line, i).ok
    THEN CusdMatchAt(line, CHOOSE i \in 1..Len(line) :
                               /\ CusdMatchAt(line, i).ok
                               /\ \A h \in 1..(i - 1) : ~CusdMatchAt(line, h).ok)
    ELSE [ok |-> FALSE, group1 |-> <<>>]

\* the loop of _send_ussd_method1/2/3 over the lines from line n on: the payload of
\* the first line that matches, or the raise at a line with ERROR
RECURSIVE UssdParse(_, _)
UssdParse(lines, n) ==
    IF n > Len(lines) THEN [raised |-> FALSE, ussd_response |-> <<>>]
    ELSE IF Contains(lines[n], <<"+","C","U","S","D",":">>)
    THEN IF CusdSearch(lines[n]).ok
         THEN [raised |-> FALSE, ussd_response |-> CusdSearch(lines[n]).group1]
         ELSE UssdParse(lines, n + 1)
    ELSE IF Contains(lines[n], <<"E","R","R","O","R">>)
    THEN [raised |-> TRUE, ussd_response |-> <<>>]
    ELSE UssdParse(lines, n + 1)

\* _send_ussd_method1/2/3 without the test of the payload for emptiness
UssdMethod_AcceptsEmpty(o) ==
    IF Raised(o) THEN [ok |-> FALSE, response |-> <<>>]
    ELSE LET p == UssdParse(SplitLines(o.lines), 1) IN
         IF p.raised
         THEN [ok |-> FALSE, response |-> <<>>]
         ELSE [ok |-> TRUE, response |-> p.ussd_response]

\* _send_ussd_method1/2/3 once its _send_at_command gave o: the payload it returns,
\* or failure (the command raised, a line has ERROR, or the payload is empty)
UssdMethod(o) ==
    IF Raised(o) THEN [ok |-> FALSE, response |-> <<>>]
    ELSE LET p == UssdParse(SplitLines(o.lines), 1) IN
         IF p.raised \/ p.ussd_response = <<>>
         THEN [ok |-> FALSE, response |-> <<>>]
         ELSE [ok |-> TRUE, response |-> p.ussd_response]

\* the read loop of _send_sms_method1/2/3 after the message body was written: True
\* at the first line with OK; a line with ERROR or FAIL, or the timeout, raises
RECURSIVE BodyAccepted(_, _)
BodyAccepted(lines, n) ==
    IF n > Len(lines) THEN FALSE
    ELSE IF Contains(lines[n], <<"O","K">>) THEN TRUE
    ELSE IF Contains(lines[n], <<"E","R","R","O","R">>) \/ Contains(lines[n], <<"F","A","I","L">>)
    THEN FALSE
    ELSE BodyAccepted(lines, n + 1)

\* self._cache_timestamp = None
NoTimestamp == 0 - 1

\* the ModemStatus that get_status returns: connected, and the error string or None
ModemStatus(connected, error) == [connected |-> connected, error |-> error]
NoStatus == [connected |-> "-", error |-> "-"]

\* a session that runs no operation: the transport, the SIM-info cache and the clock
\* stay; valid = the fields gathered for SimInfo pass its validators; issued = the commands handed to _send_at_command (and the message bodies
\* written) by the running send_sms / send_ussd call, tried = the strategies or
\* request formats it started, exchange = what the calls of the running strategy or
\* format gave back, codes = the codes get_balance passed to send_ussd
IdleSession(s) ==
    [pc |-> "idle", call |-> "-", serial_open |-> s.serial_open,
     is_initialized |-> s.is_initialized, status |-> NoStatus,
     issued |-> <<>>, tried |-> <<>>, last |-> NoOutcome, exchange |-> <<>>, m3_ok |-> FALSE,
     codes |-> <<>>, response |-> <<>>, cached |-> FALSE, valid |-> TRUE, res |-> NoResult,
     _sim_info_cache |-> s._sim_info_cache, _cache_timestamp |-> s._cache_timestamp,
     now |-> s.now, ticks |-> s.ticks]

\* ModemManager.__init__; then the transport was opened by _connect_to_modem or not,
\* and the session was marked initialized by _connect_modem_to_port or not
InitSession ==
    /\ comports = Hardware
    /\ modems = <<>>
    /\ modem_info = <<>>
    /\ active_modem_ids = <<>>
    /\ lock = [holder |-> {}, waiters |-> <<>>]
    /\ task = [t \in Tasks |-> IdleTask]
    /\ overlap = {}
    /\ eng = [pc |-> "off"]
    /\ calc = NoCalc
    /\ session \in {IdleSession([serial_open |-> o, is_initialized |-> i,
                                 _sim_info_cache |-> "None",
                                 _cache_timestamp |-> NoTimestamp, now |-> 0,
                                 ticks |-> 0]) : o \in BOOLEAN, i \in BOOLEAN}

SessionUnchanged ==
    UNCHANGED <<comports, modems, modem_info, active_modem_ids, lock, task, overlap, eng, calc>>

\* the command that each step of an operation hands to _send_at_command
CommandOf ==
    [sms_at |-> "AT", sms_cpin |-> "AT+CPIN?", sms_creg |-> "AT+CREG?", sms_atz |-> "ATZ",
     sms_atf |-> "AT&F", sms_cmgf |-> "AT+CMGF=1", sms_cscs |-> "AT+CSCS=\"GSM\"",
     sms_csq |-> "AT+CSQ", sms_m1 |-> "AT+CMGS=\"number\"", sms_m2 |-> "AT+CMGS=number",
     sms_m3_pdu |-> "AT+CMGF=0", sms_m3 |-> "AT+CMGS=length", sms_m3_restore |-> "AT+CMGF=1",
     ussd_at |-> "AT", ussd_cpin |-> "AT+CPIN?", ussd_creg |-> "AT+CREG?", ussd_atz |-> "ATZ",
     ussd_atf |-> "AT&F", ussd_ira |-> "AT+CSCS=\"IRA\"", ussd_gsm |-> "AT+CSCS=\"GSM\"",
     ussd_m1 |-> "AT+CUSD=1,\"encoded\",15", ussd_m2 |-> "AT+CUSD=1,\"hex\",15",
     ussd_m3 |-> "AT+CUSD=1,command,15",
     st_csq |-> "AT+CSQ", st_cops |-> "AT+COPS?", st_creg |-> "AT+CREG?",
     st_cgatt |-> "AT+CGATT?",
     sim_cpin |-> "AT+CPIN?", sim_cimi |-> "AT+CIMI", sim_ccid |-> "AT+CCID",
     sim_cnum |-> "AT+CNUM", sim_csq |-> "AT+CSQ", sim_cops |-> "AT+COPS?"]

\* `await self._send_at_command(CommandOf[pc], ...)`: the operation suspends at step pc
Await(s, pc) == [s EXCEPT !.pc = pc, !.issued = Append(@, CommandOf[pc])]

\* the outcome o of the awaited call arrives
Resume(s, o) ==
    [s EXCEPT !.last = o, !.exchange = IF s.tried = <<>> THEN <<>> ELSE Append(@, o)]

(***************************************************************************)
(* send_sms                                                                *)
(***************************************************************************)
\* raise SmsSendException(message), rewrapped by the outer except clause
SmsFail(s, message) == [s EXCEPT !.pc = "done", !.res = Exc("SmsSendException", message, "-")]

\* message.encode('hex') of _send_sms_method3: str.encode takes text encodings only
EncodeHex == Exc("LookupError", "'hex' is not a text encoding", "-")

\* send_sms that goes from the first strategy to the third
SmsTry_SkipsSecond(s, n) ==
    LET m == IF n = 2 THEN 3 ELSE n
        t == [s EXCEPT !.tried = Append(@, m), !.exchange = <<>>]
    IN
    CASE m = 1 -> Await(t, "sms_m1")
      [] m = 3 -> Await(t, "sms_m3_pdu")
      [] OTHER -> SmsFail(s, "All SMS sending methods failed")

\* send_sms goes on to strategy n; after the third, raise "All SMS sending methods failed"
SmsTry(s, n) ==
    LET t == [s EXCEPT !.tried = Append(@, n), !.exchange = <<>>] IN
    CASE n = 1 -> Await(t, "sms_m1")
      [] n = 2 -> Await(t, "sms_m2")
      [] n = 3 -> Await(t, "sms_m3_pdu")
      [] OTHER -> SmsFail(s, "All SMS sending methods failed")

\* the strategy that runs at step pc
SmsMethod(pc) ==
    CASE pc \in {"sms_m1", "sms_m1_body"} -> 1
      [] pc \in {"sms_m2", "sms_m2_body"} -> 2
      [] OTHER -> 3

send_sms ==
    /\ session.pc = "idle"
    /\ session' = LET s == [session EXCEPT !.call = "send_sms"] IN
                  IF ~s.serial_open THEN SmsFail(s, "Modem is not connected")
                  ELSE Await(s, "sms_at")
    /\ SessionUnchanged

\* send_sms whose registration check is fatal as well
SmsPreflight_CregFatal(o) ==
    LET s == Resume(session, o) IN
    /\ session.pc \in {"sms_at", "sms_cpin", "sms_creg", "sms_atz", "sms_atf",
                       "sms_cmgf", "sms_cscs", "sms_csq"}
    /\ session' =
          CASE s.pc = "sms_at" ->
                   IF Raised(o) THEN SmsFail(s, "Modem not responsive") ELSE Await(s, "sms_cpin")
            [] s.pc = "sms_cpin" -> Await(s, "sms_creg")
            [] s.pc = "sms_creg" ->
                   IF Raised(o) THEN SmsFail(s, "Network not registered") ELSE Await(s, "sms_atz")
            [] s.pc = "sms_atz" ->
                   IF Raised(o) THEN Await(s, "sms_cmgf") ELSE Await(s, "sms_atf")
            [] s.pc = "sms_atf" -> Await(s, "sms_cmgf")
            [] s.pc = "sms_cmgf" ->
                   IF Raised(o) THEN SmsFail(s, "Failed to set SMS text mode")
                   ELSE Await(s, "sms_cscs")
            [] s.pc = "sms_cscs" -> Await(s, "sms_csq")
            [] s.pc = "sms_csq" -> SmsTry(s, 1)
    /\ SessionUnchanged

\* a pre-flight command of send_sms completes
SmsPreflight(o) ==
    LET s == Resume(session, o) IN
    /\ session.pc \in {"sms_at", "sms_cpin", "sms_creg", "sms_atz", "sms_atf",
                       "sms_cmgf", "sms_cscs", "sms_csq"}
    /\ session' =
          CASE s.pc = "sms_at" ->
                   IF Raised(o) THEN SmsFail(s, "Modem not responsive") ELSE Await(s, "sms_cpin")
            [] s.pc = "sms_cpin" -> Await(s, "sms_creg")
            [] s.pc = "sms_creg" -> Await(s, "sms_atz")
            [] s.pc = "sms_atz" ->
                   IF Raised(o) THEN Await(s, "sms_cmgf") ELSE Await(s, "sms_atf")
            [] s.pc = "sms_atf" -> Await(s, "sms_cmgf")
            [] s.pc = "sms_cmgf" ->
                   IF Raised(o) THEN SmsFail(s, "Failed to set SMS text mode")
                   ELSE Await(s, "sms_cscs")
            [] s.pc = "sms_cscs" -> Await(s, "sms_csq")
            [] s.pc = "sms_csq" -> SmsTry(s, 1)
    /\ SessionUnchanged

\* what the read loop after a message body sees: the lines that arrive before its
\* timeout (none: the timeout), or an exception of the serial port
BodyOutcomes ==
    [kind : {"response"}, lines : ModemResponses \cup {<<>>}]
    \cup [kind : {"SerialException"}, lines : {<<>>}]

SmsBodyStep(n) == CASE n = 1 -> "sms_m1_body" [] n = 2 -> "sms_m2_body" [] OTHER -> "sms_m3_body"

\* serial_connection.write(body + Ctrl-Z), then the read loop
WriteBody(s, n) == [s EXCEPT !.pc = SmsBodyStep(n), !.issued = Append(@, "body^Z")]

\* _send_sms_method1 / _send_sms_method2: the compose command completes
SmsCompose(o) ==
    LET s == Resume(session, o)
        n == SmsMethod(session.pc)
    IN
    /\ session.pc \in {"sms_m1", "sms_m2"}
    /\ session' = IF ~Raised(o) /\ InResponse(<<">">>, o.lines)
                  THEN WriteBody(s, n)
                  ELSE SmsTry(s, n + 1)
    /\ SessionUnchanged

\* the read loop after the message body ends
SmsBody(o) ==
    LET s == Resume(session, o)
        n == SmsMethod(session.pc)
        accepted == o.kind = "response" /\ BodyAccepted(o.lines, 1)
    IN
    /\ session.pc \in {"sms_m1_body", "sms_m2_body", "sms_m3_body"}
    /\ session' = IF n = 3 THEN Await([s EXCEPT !.m3_ok = accepted], "sms_m3_restore")
                  ELSE IF accepted THEN [s EXCEPT !.pc = "done", !.res = Ok]
                  ELSE SmsTry(s, n + 1)
    /\ SessionUnchanged

\* _send_sms_method3: AT+CMGF=0 completes; the call stands before the try statement
SmsPduSwitch(o) ==
    LET s == Resume(session, o) IN
    /\ session.pc = "sms_m3_pdu"
    /\ session' = IF Raised(o) THEN SmsTry(s, 4) ELSE Await(s, "sms_m3")
    /\ SessionUnchanged

\* _send_sms_method3: the compose command completes; every way out of the try
\* statement goes through the finally clause
SmsPduCompose(o) ==
    LET s == Resume(session, o) IN
    /\ session.pc = "sms_m3"
    /\ session' = IF ~Raised(o) /\ InResponse(<<">">>, o.lines) /\ EncodeHex.kind = "ok"
                  THEN WriteBody(s, 3)
                  ELSE Await(s, "sms_m3_restore")
    /\ SessionUnchanged

\* _send_sms_method3: the AT+CMGF=1 of the finally clause completes
SmsPduRestore(o) ==
    LET s == Resume(session, o) IN
    /\ session.pc = "sms_m3_restore"
    /\ session' = IF ~Raised(o) /\ s.m3_ok THEN [s EXCEPT !.pc = "done", !.res = Ok]
                  ELSE SmsTry(s, 4)
    /\ SessionUnchanged

(***************************************************************************)
(* send_ussd and get_balance                                               *)
(***************************************************************************)
balance_codes == <<"*223#", "*100#", "*101#", "*102#">>

\* what a send_ussd call gives back: a UssdResponse with the payload, or the
\* UssdException of the outer except clause
UssdReturn(response) == [ok |-> TRUE, response |-> response, message |-> "-"]
UssdRaise(message) == [ok |-> FALSE, response |-> <<>>, message |-> message]

\* send_ussd(code) on an open transport, up to its first suspension
UssdEnter(s, code) ==
    Await([s EXCEPT !.codes = Append(@, code), !.issued = <<>>, !.tried = <<>>,
                    !.last = NoOutcome, !.exchange = <<>>, !.response = <<>>], "ussd_at")

\* get_balance that returns the first candidate that succeeded, whatever its text
UssdFinish_AnyPayload(s, r) ==
    LET n == Len(s.codes)
        result == IF r.ok THEN Ok ELSE Exc("UssdException", r.message, "-")
        done == [s EXCEPT !.pc = "done", !.res = result, !.response = r.response]
    IN
    IF s.call = "send_ussd" THEN done
    ELSE IF n > Len(balance_codes) THEN done
    ELSE IF r.ok THEN done
    ELSE IF n < Len(balance_codes) THEN UssdEnter(s, balance_codes[n + 1])
    ELSE UssdEnter(s, balance_codes[1])

\* a send_ussd call ends with r. Called directly, that is the result. Inside
\* get_balance: a candidate whose payload has the keyword is returned, another
\* candidate is followed by the next one and the last by the fallback call, whose
\* result is returned or raised as it is
UssdFinish(s, r) ==
    LET n == Len(s.codes)
        result == IF r.ok THEN Ok ELSE Exc("UssdException", r.message, "-")
        done == [s EXCEPT !.pc = "done", !.res = result, !.response = r.response]
    IN
    IF s.call = "send_ussd" THEN done
    ELSE IF n > Len(balance_codes) THEN done
    ELSE IF r.ok /\ Contains(Lower(r.response), <<"b","a","l","a","n","c","e">>) THEN done
    ELSE IF n < Len(balance_codes) THEN UssdEnter(s, balance_codes[n + 1])
    ELSE UssdEnter(s, balance_codes[1])

\* send_ussd goes on to request format n; after the third, raise "All USSD sending
\* methods failed"
UssdTry(s, n) ==
    LET t == [s EXCEPT !.tried = Append(@, n), !.exchange = <<>>] IN
    CASE n = 1 -> Await(t, "ussd_m1")
      [] n = 2 -> Await(t, "ussd_m2")
      [] n = 3 -> Await(t, "ussd_m3")
      [] OTHER -> UssdFinish(s, UssdRaise("All USSD sending methods failed"))

UssdFormatOf(pc) == CASE pc = "ussd_m1" -> 1 [] pc = "ussd_m2" -> 2 [] OTHER -> 3

send_ussd(code) ==
    /\ session.pc = "idle"
    /\ session' = LET s == [session EXCEPT !.call = "send_ussd"] IN
                  IF ~s.serial_open
                  THEN UssdFinish([s EXCEPT !.codes = <<code>>], UssdRaise("Modem is not connected"))
                  ELSE UssdEnter(s, code)
    /\ SessionUnchanged

\* get_balance: on a closed transport every send_ussd call fails at once, the
\* fallback call included
get_balance ==
    /\ session.pc = "idle"
    /\ session' = LET s == [session EXCEPT !.call = "get_balance"] IN
                  IF ~s.serial_open
                  THEN UssdFinish([s EXCEPT !.codes = balance_codes \o <<balance_codes[1]>>],
                                  UssdRaise("Modem is not connected"))
                  ELSE UssdEnter(s, balance_codes[1])
    /\ SessionUnchanged

\* a pre-flight command of send_ussd completes
UssdPreflight(o) ==
    LET s == Resume(session, o) IN
    /\ session.pc \in {"ussd_at", "ussd_cpin", "ussd_creg", "ussd_atz", "ussd_atf"}
    /\ session' =
          CASE s.pc = "ussd_at" ->
                   IF Raised(o) THEN UssdFinish(s, UssdRaise("Modem not responsive"))
                   ELSE Await(s, "ussd_cpin")
            [] s.pc = "ussd_cpin" -> Await(s, "ussd_creg")
            [] s.pc = "ussd_creg" -> Await(s, "ussd_atz")
            [] s.pc = "ussd_atz" ->
                   IF Raised(o) THEN Await(s, "ussd_ira") ELSE Await(s, "ussd_atf")
            [] s.pc = "ussd_atf" -> Await(s, "ussd_ira")
    /\ SessionUnchanged

\* the character set command completes: GSM is asked for when the IRA call raised
UssdCharset(o) ==
    LET s == Resume(session, o) IN
    /\ session.pc \in {"ussd_ira", "ussd_gsm"}
    /\ session' = IF s.pc = "ussd_ira" /\ Raised(o) THEN Await(s, "ussd_gsm")
                  ELSE UssdTry(s, 1)
    /\ SessionUnchanged

\* the AT+CUSD command of a request format completes
UssdFormat(o) ==
    LET s == Resume(session, o)
        n == UssdFormatOf(session.pc)
        m == UssdMethod(o)
    IN
    /\ session.pc \in {"ussd_m1", "ussd_m2", "ussd_m3"}
    /\ session' = IF m.ok THEN UssdFinish(s, UssdReturn(m.response))
                  ELSE UssdTry(s, n + 1)
    /\ SessionUnchanged

(***************************************************************************)
(* get_sim_info and its cache.  Time is counted in seconds; NoTimestamp     *)
(* stands for None.                                                        *)
(***************************************************************************)
\* self._cache_duration = 300
_cache_duration == 300

\* the largest number of times the clock is advanced
MaxTicks == 3

\* the amounts by which the clock advances between two looks at it, in seconds
TimeSteps == {100, 86200}

\* timedelta.seconds: the seconds of the difference within its last day (the days
\* are a field of their own)
TimedeltaSeconds(delta) == delta % 86400

\* the cache test of get_sim_info
CacheFresh(s) ==
    /\ s._sim_info_cache # "None"
    /\ s._cache_timestamp # NoTimestamp
    /\ TimedeltaSeconds(s.now - s._cache_timestamp) < _cache_duration

\* cimi_response.split('\n')[1].strip() when "OK" in the response, else None (<<>>)
SecondLine(o) ==
    IF ~Raised(o) /\ InResponse(<<"O","K">>, o.lines) THEN SplitLines(o.lines)[2] ELSE <<>>

\* the validators of SimInfo: digits only, and of the lengths allowed
DigitsOfLength(v, lengths) ==
    v = <<>> \/ ((\A i \in 1..Len(v) : v[i] \in Digits) /\ Len(v) \in lengths)

\* a get_sim_info whose failure drops the cached value
SimFail_ClearsCache(s) ==
    [s EXCEPT !.pc = "done", !.res = Exc("SimCardNotDetectedException", "-", "-"),
              !._sim_info_cache = "None", !._cache_timestamp = 0 - 1]

\* the except clause of get_sim_info
SimFail(s) ==
    [s EXCEPT !.pc = "done", !.res = Exc("SimCardNotDetectedException", "-", "-")]

\* time passes
Tick(d) ==
    /\ session.pc # "off"
    /\ session.ticks < MaxTicks
    /\ session' = [session EXCEPT !.now = @ + d, !.ticks = @ + 1]
    /\ SessionUnchanged

get_sim_info ==
    /\ session.pc = "idle"
    /\ session' = LET s == [session EXCEPT !.call = "get_sim_info"] IN
                  IF CacheFresh(s) THEN [s EXCEPT !.pc = "done", !.res = Ok, !.cached = TRUE]
                  ELSE IF ~s.serial_open THEN SimFail([s EXCEPT !.issued = <<"AT+CPIN?">>])
                  ELSE Await(s, "sim_cpin")
    /\ SessionUnchanged

\* what a _send_at_command call of get_sim_info gives: also replies to AT+CIMI as a
\* modem frames them (an empty line, the value, an empty line, OK), with an IMSI of
\* 15 digits and with one of 14 digits
SimOutcomes ==
    Outcomes \cup
    [kind : {"response"},
     lines : { << <<>>, <<"6","0","3","0","2","1","2","3","4","5","6","7","8","9","0">>, <<>>,
                  <<"O","K">> >>,
               << <<>>, <<"6","0","3","0","2","1","2","3","4","5","6","7","8","9">>, <<>>,
                  <<"O","K">> >> }]

\* a query of get_sim_info completes; after the last one SimInfo is built and cached
SimQuery(o) ==
    LET s == Resume(session, o) IN
    /\ session.pc \in {"sim_cpin", "sim_cimi", "sim_ccid", "sim_cnum", "sim_csq", "sim_cops"}
    /\ session' =
          CASE s.pc = "sim_cpin" ->
                   IF Raised(o) \/ ~InResponse(<<"R","E","A","D","Y">>, o.lines)
                   THEN SimFail(s) ELSE Await(s, "sim_cimi")
            [] s.pc = "sim_cimi" ->
                   Await([s EXCEPT !.valid = DigitsOfLength(SecondLine(o), {15})], "sim_ccid")
            [] s.pc = "sim_ccid" ->
                   Await([s EXCEPT !.valid = @ /\ DigitsOfLength(SecondLine(o), {19, 20})], "sim_cnum")
            [] s.pc = "sim_cnum" -> Await(s, "sim_csq")
            [] s.pc = "sim_csq" -> Await(s, "sim_cops")
            [] s.pc = "sim_cops" ->
                   IF ~s.valid THEN SimFail(s)
                   ELSE [s EXCEPT !.pc = "done", !.res = Ok,
                                  !._sim_info_cache = "SimInfo", !._cache_timestamp = s.now]
    /\ SessionUnchanged


(***************************************************************************)
(* get_status                                                              *)
(***************************************************************************)
\* int(digits)
RECURSIVE ToInt(_)
ToInt(digits) ==
    LET value(c) == CHOOSE n \in 0..9 : <<"0","1","2","3","4","5","6","7","8","9">>[n + 1] = c IN
    IF digits = <<>> THEN 0
    ELSE 10 * ToInt(SubSeq(digits, 1, Len(digits) - 1)) + value(digits[Len(digits)])

\* re.search(r'CREG:\s*\d+,(\d+)', creg_response) finds a match, the leftmost, and
\* reg_status = int(group 1) is in [1, 5]
Registered(lines) ==
    LET text == ResponseText(lines)
        at(i) == LET j == SkipChars(text, i + 5, Whitespace \cup {"\n"})
                     k == SkipChars(text, j, Digits)
                     m == SkipChars(text, k + 1, Digits)
                 IN  [ok |-> /\ StartsAt(text, i, <<"C","R","E","G",":">>)
                             /\ k > j
                             /\ StartsAt(text, k, <<",">>)
                             /\ m > k + 1,
                      group1 |-> SubSeq(text, k + 1, m - 1)]
        hits == {i \in 1..Len(text) : at(i).ok}
    IN  /\ hits # {}
        /\ ToInt(at(CHOOSE i \in hits : \A h \in hits : i <= h).group1) \in {1, 5}

\* what a _send_at_command call of get_status gives: also a registration report
StatusOutcomes ==
    Outcomes \cup [kind : {"response"},
                   lines : { << <<"+","C","R","E","G",":"," ","0",",","1">>, <<"O","K">> >> }]

\* get_status returns
StatusReturn(s, connected, error) ==
    [s EXCEPT !.pc = "done", !.res = Ok, !.status = ModemStatus(connected, error)]

\* a get_status that does not look at is_initialized
get_status_NoInitTest ==
    /\ session.pc = "idle"
    /\ session' = LET s == [session EXCEPT !.call = "get_status"] IN
                  IF ~s.serial_open THEN StatusReturn(s, FALSE, "Serial connection lost")
                  ELSE Await(s, "st_csq")
    /\ SessionUnchanged

get_status ==
    /\ session.pc = "idle"
    /\ session' = LET s == [session EXCEPT !.call = "get_status"] IN
                  IF ~s.is_initialized THEN StatusReturn(s, FALSE, "Modem not initialized")
                  ELSE IF ~s.serial_open THEN StatusReturn(s, FALSE, "Serial connection lost")
                  ELSE Await(s, "st_csq")
    /\ SessionUnchanged

\* a command of get_status completes.  AT+CSQ has a try statement of its own;
\* AT+COPS? and AT+CREG? share one, and AT+CGATT?, sent when the modem reports that
\* it is registered, has one inside it
StatusQuery(o) ==
    LET s == Resume(session, o) IN
    /\ session.pc \in {"st_csq", "st_cops", "st_creg", "st_cgatt"}
    /\ session' =
          CASE s.pc = "st_csq" -> Await(s, "st_cops")
            [] s.pc = "st_cops" ->
                   IF Raised(o) THEN StatusReturn(s, TRUE, "None") ELSE Await(s, "st_creg")
            [] s.pc = "st_creg" ->
                   IF ~Raised(o) /\ Registered(o.lines) THEN Await(s, "st_cgatt")
                   ELSE StatusReturn(s, TRUE, "None")
            [] s.pc = "st_cgatt" -> StatusReturn(s, TRUE, "None")
    /\ SessionUnchanged

(***************************************************************************)
(* _connect_modem_to_port: _connect_to_modem, _configure_modem             *)
(***************************************************************************)
\* the batch of _configure_modem
config_commands ==
    <<"ATZ", "AT&F", "AT+CPIN?", "AT+CREG?", "AT+CSQ", "AT+CGATT?",
      "AT+CGDCONT=1,\"IP\",\"internet\"", "AT+CMGF=1", "AT+CNMI=2,2,0,0,0", "AT+CLIP=1",
      "AT+COPS=0">>

\* the coordinator connects the ModemManager it has just built; serial.Serial opens the
\* port or raises, and then AT is sent
_connect_modem_to_port(opens) ==
    /\ session.pc = "idle"
    /\ ~session.serial_open
    /\ ~session.is_initialized
    /\ session' =
          LET s == [session EXCEPT !.call = "_connect_modem_to_port"] IN
          IF opens
          THEN [s EXCEPT !.serial_open = TRUE, !.pc = "conn_at", !.issued = <<"AT">>]
          ELSE [s EXCEPT !.pc = "done",
                         !.res = Exc("MultiModemException", "SerialPortException", "-")]
    /\ SessionUnchanged

\* a command of the connection sequence completes.  AT must answer OK; every command of
\* the batch has a try statement of its own; the three commands of _get_modem_info
\* share one; at the end the session is marked initialized
ConnectStep(o) ==
    LET s == Resume(session, o)
        info_commands == <<"AT+CGMM", "AT+CGMR", "AT+CGSN">>
        n == Len(session.issued) - 1
        k == n - Len(config_commands)
        send(pc, command) == [s EXCEPT !.pc = pc, !.issued = Append(@, command)]
        finish == [s EXCEPT !.pc = "done", !.res = Ok, !.is_initialized = TRUE]
    IN
    /\ session.pc \in {"conn_at", "conn_config", "conn_info"}
    /\ session' =
          CASE s.pc = "conn_at" ->
                   IF Raised(o) \/ ~InResponse(<<"O","K">>, o.lines)
                   THEN [s EXCEPT !.pc = "done",
                                  !.res = Exc("MultiModemException", "SerialPortException", "-")]
                   ELSE send("conn_config", config_commands[1])
            [] s.pc = "conn_config" ->
                   IF n < Len(config_commands) THEN send("conn_config", config_commands[n + 1])
                   ELSE send("conn_info", info_commands[1])
            [] s.pc = "conn_info" ->
                   IF Raised(o) \/ k = Len(info_commands) THEN finish
                   ELSE send("conn_info", info_commands[k + 1])
    /\ SessionUnchanged

(***************************************************************************)
(* close                                                                   *)
(***************************************************************************)
\* a close that leaves the session marked initialized
close_KeepsInitialized ==
    /\ session.pc = "idle"
    /\ session' = [session EXCEPT !.pc = "done", !.call = "close", !.res = Ok,
                                  !.issued = IF session.serial_open
                                             THEN <<"serial_connection.close()">> ELSE <<>>,
                                  !.serial_open = FALSE]
    /\ SessionUnchanged

\* close() runs without suspension: the transport is closed when there is an open
\* one (issued records that call), then is_initialized = False, serial_connection = None
close ==
    /\ session.pc = "idle"
    /\ session' = [session EXCEPT !.pc = "done", !.call = "close", !.res = Ok,
                                  !.issued = IF session.serial_open
                                             THEN <<"serial_connection.close()">> ELSE <<>>,
                                  !.serial_open = FALSE, !.is_initialized = FALSE]
    /\ SessionUnchanged

\* the caller takes the result; the session is free for the next operation
SessionReturn ==
    /\ session.pc = "done"
    /\ session' = IdleSession(session)
    /\ SessionUnchanged

NextSession ==
    \/ send_sms
    \/ \E o \in Outcomes : SmsPreflight(o)
    \/ \E o \in Outcomes : SmsCompose(o)
    \/ \E o \in BodyOutcomes : SmsBody(o)
    \/ \E o \in Outcomes : SmsPduSwitch(o)
    \/ \E o \in Outcomes : SmsPduCompose(o)
    \/ \E o \in Outcomes : SmsPduRestore(o)
    \/ \E code \in {balance_codes[1]} : send_ussd(code)
    \/ get_balance
    \/ \E o \in Outcomes : UssdPreflight(o)
    \/ \E o \in Outcomes : UssdCharset(o)
    \/ \E o \in Outcomes : UssdFormat(o)
    \/ get_sim_info
    \/ \E o \in SimOutcomes : SimQuery(o)
    \/ get_status
    \/ \E o \in StatusOutcomes : StatusQuery(o)
    \/ \E opens \in BOOLEAN : _connect_modem_to_port(opens)
    \/ \E o \in Outcomes : ConnectStep(o)
    \/ close
    \/ \E d \in TimeSteps : Tick(d)
    \/ SessionReturn

SpecSession == InitSession /\ [][NextSession]_vars


(***************************************************************************)
(* SpecCalc: the conversions of the code, each applied to an input.  calc   *)
(* holds the function applied last, its argument and its result, and in    *)
(* src the input from which the argument was made.                         *)
(***************************************************************************)
CalcUnchanged ==
    UNCHANGED <<comports, modems, modem_info, active_modem_ids, lock, task, overlap, eng, session>>

InitCalc ==
    /\ comports = Hardware
    /\ modems = <<>>
    /\ modem_info = <<>>
    /\ active_modem_ids = <<>>
    /\ lock = [holder |-> {}, waiters |-> <<>>]
    /\ task = [t \in Tasks |-> IdleTask]
    /\ overlap = {}
    /\ eng = [pc |-> "off"]
    /\ session = [pc |-> "off"]
    /\ calc = NoCalc

\* the largest signal reading the scripted modem reports
MaxCsq == 99

\* the decimal digits of n, as the modem writes them
RECURSIVE DigitsOf(_)
DigitsOf(n) ==
    LET d == <<"0","1","2","3","4","5","6","7","8","9">>[(n % 10) + 1] IN
    IF n < 10 THEN <<d>> ELSE Append(DigitsOf(n \div 10), d)

\* signal_strength = None
NoSignal == 0 - 1

\* the signal_strength that get_status and get_sim_info take from the response to
\* AT+CSQ: None without a match of CSQ:\s*(\d+), else
\* min(100, int((raw_signal / 31) * 100)), where int() drops the fraction
SignalStrength(lines) ==
    LET text == ResponseText(lines)
        at(i) == LET j == SkipChars(text, i + 4, Whitespace \cup {"\n"})
                     k == SkipChars(text, j, Digits)
                 IN  [ok |-> StartsAt(text, i, <<"C","S","Q",":">>) /\ k > j,
                      group1 |-> SubSeq(text, j, k - 1)]
        hits == {i \in 1..Len(text) : at(i).ok}
        raw_signal == ToInt(at(CHOOSE i \in hits : \A h \in hits : i <= h).group1)
        percent == (raw_signal * 100) \div 31
    IN  IF hits = {} THEN NoSignal
        ELSE IF percent < 100 THEN percent ELSE 100

\* get_status / get_sim_info read the signal from the modem's answer to AT+CSQ with
\* the reading n
signal_strength(n) ==
    LET csq_response == << <<"+","C","S","Q",":"," ">> \o DigitsOf(n) \o <<",","9","9">>,
                           <<"O","K">> >>
    IN
    /\ calc' = [fn |-> "signal_strength", src |-> DigitsOf(n), arg |-> csq_response,
                out |-> SignalStrength(csq_response)]
    /\ CalcUnchanged


(***************************************************************************)
(* UssdEncoderDecoder.  A character is a one-element string; a letter with  *)
(* a diacritic is written by its name ("e-grave" for the lower-case letter, *)
(* "E-GRAVE" for the capital).                                             *)
(***************************************************************************)
\* the longest generated text
MaxTextLen == 2

\* the inputs: every text up to MaxTextLen over a lower-case and a capital letter, a
\* digit, a USSD sign, a sign outside the GSM alphabet, two lower-case letters of
\* the alphabet with a diacritic, and two letters outside it; and a longer sample
Texts ==
    LET chars == {"a", "Z", "1", "*", "~", "e-grave", "o-slash", "sharp-s", "c-cedilla"} IN
    UNION {[1..n -> chars] : n \in 0..MaxTextLen}
    \cup { <<"H","e","l","l","o"," ","*","1","2","3","#","!","!">> }

\* the keys of GSM_7BIT_CHARS, among the characters that occur
GSM_7BIT_CHARS ==
    {" ", "!", "#", "*", "+", "1", "2", "3", "A", "E", "H", "L", "O", "S", "Z",
     "a", "e", "h", "l", "o", "e-grave", "o-slash", "O-SLASH", "C-CEDILLA"}

\* str.upper(): the sharp s becomes SS
RECURSIVE Upper(_)
Upper(s) ==
    LET up(c) == CASE c = "a" -> <<"A">> [] c = "e" -> <<"E">> [] c = "h" -> <<"H">>
                   [] c = "l" -> <<"L">> [] c = "o" -> <<"O">>
                   [] c = "e-grave" -> <<"E-GRAVE">> [] c = "o-slash" -> <<"O-SLASH">>
                   [] c = "c-cedilla" -> <<"C-CEDILLA">> [] c = "sharp-s" -> <<"S", "S">>
                   [] OTHER -> <<c>>
    IN  IF s = <<>> THEN <<>> ELSE up(Head(s)) \o Upper(Tail(s))

\* upper-cases, then keeps the characters of the table and puts a space for others
encode_as_7bit_gsm(text) ==
    IF text = <<>> THEN <<>>
    ELSE [i \in 1..Len(Upper(text)) |->
             IF Upper(text)[i] \in GSM_7BIT_CHARS THEN Upper(text)[i] ELSE " "]

\* appends the character in both branches; GSM_7BIT_CHARS_REVERSE has the codes for
\* keys, so that a character is never among them
decode_from_7bit_gsm(encoded_text) ==
    LET in_reverse(char) == FALSE IN
    IF encoded_text = <<>> THEN <<>>
    ELSE [i \in 1..Len(encoded_text) |->
             IF in_reverse(encoded_text[i]) THEN encoded_text[i] ELSE encoded_text[i]]

\* a sanitize_for_ussd that upper-cases only
sanitize_for_ussd_KeepsAll(text) == IF text = <<>> THEN <<>> ELSE Upper(text)

\* re.sub(r'[^0-9*#+A-Za-z]', '', text).upper()
sanitize_for_ussd(text) ==
    LET ussd == {"1", "2", "3", "*", "#", "+", "A", "E", "H", "L", "O", "S", "Z",
                 "a", "e", "h", "l", "o"}
    IN  IF text = <<>> THEN <<>>
        ELSE Upper(SelectSeq(text, LAMBDA c : c \in ussd))

Encode(s) ==
    /\ calc' = [fn |-> "encode_as_7bit_gsm", src |-> s, arg |-> s, out |-> encode_as_7bit_gsm(s)]
    /\ CalcUnchanged

\* the encoded text is decoded
Decode ==
    /\ calc.fn = "encode_as_7bit_gsm"
    /\ calc' = [fn |-> "decode_from_7bit_gsm", src |-> calc.src, arg |-> calc.out,
                out |-> decode_from_7bit_gsm(calc.out)]
    /\ CalcUnchanged

Sanitize(s) ==
    /\ calc' = [fn |-> "sanitize_for_ussd", src |-> s, arg |-> s, out |-> sanitize_for_ussd(s)]
    /\ CalcUnchanged


(***************************************************************************)
(* The number that send_sms hands to its strategies                        *)
(***************************************************************************)
\* a send_sms that puts the country code before the local zero
NormalizeNumber_KeepsZero(number) ==
    LET startswith(p) == Len(number) >= Len(p) /\ SubSeq(number, 1, Len(p)) = p IN
    IF ~startswith(<<"+">>) /\ ~startswith(<<"0", "0">>)
    THEN <<"+", "2", "1", "3">> \o number
    ELSE number

\* send_sms: "Validate phone number format"
NormalizeNumber(number) ==
    LET startswith(p) == Len(number) >= Len(p) /\ SubSeq(number, 1, Len(p)) = p IN
    IF ~startswith(<<"+">>) /\ ~startswith(<<"0", "0">>)
    THEN IF startswith(<<"0">>)
         THEN <<"+", "2", "1", "3">> \o SubSeq(number, 2, Len(number))
         ELSE <<"+", "2", "1", "3">> \o number
    ELSE number

\* send_sms is called with a number of up to MaxTextLen + 1 characters
Normalize(number) ==
    /\ calc' = [fn |-> "NormalizeNumber", src |-> number, arg |-> number,
                out |-> NormalizeNumber(number)]
    /\ CalcUnchanged

NextCalc ==
    \/ \E n \in 0..MaxCsq : signal_strength(n)
    \/ \E s \in Texts : Encode(s)
    \/ Decode
    \/ \E s \in Texts : Sanitize(s)
    \/ \E number \in UNION {[1..n -> {"+", "0", "5"}] : n \in 0..(MaxTextLen + 1)} :
          Normalize(number)

SpecCalc == InitCalc /\ [][NextCalc]_vars

(***************************************************************************)
(* Properties of the coordinator (Spec)                                    *)
(***************************************************************************)
Done(t, call) == task[t].pc = "done" /\ task[t].call = call

\* the policy check named cls refused the call that gave result r
Refused(r, cls) == r.kind = cls \/ r.origin = cls

\* in this step task t, running call, got the lock and went through the body that
\* the lock guards up to its first suspension
Entered(t, call) ==
    /\ task'[t].call = call
    /\ \/ task[t].pc = "idle" /\ task'[t].pc \notin {"idle", "connect_wait", "disconnect_wait"}
       \/ task[t].pc \in {"connect_wait", "disconnect_wait"}
          /\ task'[t].pc \notin {"connect_wait", "disconnect_wait"}

\* C1: the number of live sessions in the active-session map never exceeds
\* MAX_CONCURRENT_MODEMS, whatever the interleaving of the coordinator's operations
C1_ActiveWithinLimit == Len(modems) <= MAX_CONCURRENT_MODEMS

\* the limit is reached and a connect of a further, registered id has been refused
C1_Witness ==
    /\ Len(modems) = MAX_CONCURRENT_MODEMS
    /\ \E t \in Tasks :
          /\ Done(t, "connect_modem")
          /\ ~Has(modems, task[t].id)
          /\ task[t].id \in DOMAIN modem_info
          /\ Refused(task[t].res, "ModemLimitExceededException")

\* C2: two overlapping connect_modem(id) calls for a registered id that neither the
\* limit nor the connect sequence stopped end as one success and one
\* ModemAlreadyConnectedException, with id live afterwards
C2_ConcurrentConnect ==
    \A t, u \in Tasks :
        ( /\ t # u /\ {t, u} \in overlap
          /\ Done(t, "connect_modem") /\ Done(u, "connect_modem")
          /\ task[t].id = task[u].id
          /\ task[t].res.kind = "ok"
          /\ ~Refused(task[u].res, "ModemLimitExceededException")
          /\ ~Refused(task[u].res, "ModemNotFoundException")
          /\ task[u].res.cause # "MultiModemException" )
        => /\ task[u].res.kind = "ModemAlreadyConnectedException"
           /\ Has(modems, task[t].id)

\* C3: connect_modem(id) with the active count at the maximum and id not live fails
\* with ModemLimitExceededException, opens nothing and changes neither map
C3_LimitExceeded ==
    [][ \A t \in Tasks :
          ( /\ Entered(t, "connect_modem")
            /\ Len(modems) = MAX_CONCURRENT_MODEMS
            /\ ~Has(modems, task'[t].id) )
          => /\ task'[t].pc = "done"
             /\ task'[t].res.kind = "ModemLimitExceededException"
             /\ task'[t].sess = "none"
             /\ UNCHANGED <<modems, modem_info, active_modem_ids>> ]_vars

\* a command has been written to the open transport of t's session and its
\* terminal line has not been read
InFlight(t) == task[t].pc = "op_wait" /\ task[t].sess = "open"

\* C4: at most one command is in flight on the transport of a live session, also
\* when two per-modem operations on the same modem run concurrently
C4_OneCommandInFlight ==
    \A t, u \in Tasks :
        (t # u /\ InFlight(t) /\ InFlight(u)) => task[t].id # task[u].id

\* C5: a per-modem operation on an id that is not active connects first; a failed
\* connect ends the operation with ModemNotFoundException before any session
\* operation; after a successful one the operation runs on the registered session,
\* and its return updates last_activity
C5_ConnectOnDemand ==
    [][ \A t \in Tasks :
          /\ ( /\ task[t].pc \in {"idle", "connect_wait", "connecting"}
               /\ task'[t].call \in PerModemOps
               /\ task'[t].pc = "done" )
             => task'[t].res.kind = "ModemNotFoundException"
          /\ ( /\ task[t].pc \in {"idle", "connect_wait", "connecting"}
               /\ task'[t].call \in PerModemOps
               /\ task'[t].pc = "op_wait" )
             => Has(modems', task'[t].id) /\ task'[t].sess = "open"
          /\ ( /\ task[t].pc = "op_run" /\ task'[t].pc = "done"
               /\ task'[t].res.kind = "ok" /\ task[t].id \in DOMAIN modem_info )
             => modem_info'[task[t].id].last_activity = "now" ]_vars

\* C6: connect_modem(id) for an id without registry entry (not live, capacity left)
\* fails with ModemNotFoundException, constructs no session and changes neither map
C6_UnknownId ==
    [][ \A t \in Tasks :
          ( /\ Entered(t, "connect_modem")
            /\ ~Has(modems, task'[t].id)
            /\ Len(modems) < MAX_CONCURRENT_MODEMS
            /\ task'[t].id \notin DOMAIN modem_info )
          => /\ task'[t].pc = "done"
             /\ task'[t].res.kind = "ModemNotFoundException"
             /\ task'[t].sess = "none"
             /\ UNCHANGED <<modems, modem_info, active_modem_ids>> ]_vars

\* C7: disconnect_modem(id) for an id without live session fails with
\* ModemNotFoundException and changes neither the active map nor the registry
C7_DisconnectNotActive ==
    [][ \A t \in Tasks :
          ( /\ Entered(t, "disconnect_modem")
            /\ ~Has(modems, task'[t].id) )
          => /\ task'[t].pc = "done"
             /\ task'[t].res.kind = "ModemNotFoundException"
             /\ UNCHANGED <<modems, modem_info, active_modem_ids>> ]_vars

\* C8: disconnect_modem(id) on a live id succeeds, closes that session, removes
\* exactly id from modems and from active_modem_ids, keeps every other session and
\* the whole registry (the entry of id with its port included), so that the policy
\* checks of a later connect_modem(id) pass without a new detection
C8_DisconnectFrame ==
    [][ \A t \in Tasks :
          ( /\ Entered(t, "disconnect_modem")
            /\ Has(modems, task'[t].id) )
          => LET id == task'[t].id IN
             /\ task'[t].pc = "done" /\ task'[t].res.kind = "ok"
             /\ KeySet(modems') = KeySet(modems) \ {id}
             /\ \A k \in KeySet(modems') : Val(modems', k) = Val(modems, k)
             /\ Len(modems') = Len(modems) - 1
             /\ active_modem_ids' = Keys(modems')
             /\ \A u \in Tasks :
                   (task[u].pc \in {"op_run", "op_wait"} /\ task[u].id = id)
                   => task'[u].sess = "closed"
             /\ \A u \in Tasks :
                   (task[u].pc \in {"op_run", "op_wait"} /\ task[u].id # id)
                   => task'[u] = task[u]
             /\ DOMAIN modem_info' = DOMAIN modem_info
             /\ id \in DOMAIN modem_info'
             /\ \A k \in DOMAIN modem_info : modem_info'[k].port = modem_info[k].port
             /\ ~Has(modems', id)
             /\ Len(modems') < MAX_CONCURRENT_MODEMS ]_vars

\* a disconnect of a live id has succeeded while another session stayed live and
\* the registry still knows the id
C8_Witness ==
    \E t \in Tasks :
        /\ Done(t, "disconnect_modem")
        /\ task[t].res.kind = "ok"
        /\ ~Has(modems, task[t].id)
        /\ task[t].id \in DOMAIN modem_info
        /\ Len(modems) >= 1

(***************************************************************************)
(* Properties of the command engine (SpecSend)                             *)
(***************************************************************************)
Returned == eng.pc = "done" /\ eng.serial_open

\* the terminal tokens of the protocol: OK, ERROR, FAIL and the compose prompt
HasTerminalToken(text) ==
    \/ Contains(text, <<"O","K">>)
    \/ Contains(text, <<"E","R","R","O","R">>)
    \/ Contains(text, <<"F","A","I","L">>)
    \/ Contains(text, <<">">>)

C10_PromptEndsAttempt ==
    eng.pc = "reading" => ~HasTerminalToken(eng.response)

\* the last attempt read a line with ERROR or FAIL
ErrorResponse ==
    \/ Contains(eng.response, <<"E","R","R","O","R">>)
    \/ Contains(eng.response, <<"F","A","I","L">>)

\* C11: a response whose terminal line has ERROR or FAIL is not retried: the call
\* ends with that attempt and raises ATCommandException to its caller
C11_ErrorRaised ==
    (Returned /\ ErrorResponse) => eng.result = "ATCommandException"

(***************************************************************************)
(* Properties of the session operations (SpecSession)                      *)
(***************************************************************************)
Running(call) == session.pc \notin {"off", "idle"} /\ session.call = call

Finished(call) == session.pc = "done" /\ session.call = call

Failed(message) == session.res.kind \notin {"ok", "-"} /\ session.res.cause = message

\* l is <<1, ..., n>> for some n <= 3
InOrder(l) == Len(l) <= 3 /\ \A i \in 1..Len(l) : l[i] = i

\* the commands that open the three strategies of send_sms, among those issued
ComposeCommands ==
    SelectSeq(session.issued,
              LAMBDA c : c \in {CommandOf["sms_m1"], CommandOf["sms_m2"], CommandOf["sms_m3_pdu"]})

\* C12: send_sms starts its strategies in the order quoted compose, unquoted
\* compose, PDU mode, each at most once; the step in which a strategy succeeds
\* returns True and starts no further strategy; "All SMS sending methods failed" is
\* raised only after all three were started and failed
C12_SmsStrategyOrder ==
    /\ [](Running("send_sms") =>
            /\ InOrder(session.tried)
            /\ ComposeCommands = [i \in 1..Len(session.tried) |->
                  <<CommandOf["sms_m1"], CommandOf["sms_m2"], CommandOf["sms_m3_pdu"]>>[i]]
            /\ (session.res.kind = "ok" => Len(session.tried) >= 1)
            /\ (Failed("All SMS sending methods failed") => session.tried = <<1, 2, 3>>))
    /\ [][ ( /\ session.pc \in {"sms_m1_body", "sms_m2_body"}
             /\ session'.pc # session.pc
             /\ session'.last.kind = "response"
             /\ BodyAccepted(session'.last.lines, 1) )
           => /\ session'.pc = "done" /\ session'.res.kind = "ok"
              /\ session'.tried = session.tried
              /\ session'.issued = session.issued ]_vars
    /\ [][ ( /\ session.pc \in {"sms_m1", "sms_m1_body", "sms_m2", "sms_m2_body"}
             /\ session'.pc \notin {session.pc, "sms_m1_body", "sms_m2_body", "done"} )
           => session'.tried = Append(session.tried, Len(session.tried) + 1) ]_vars

\* the second strategy has succeeded after the first one failed
C12_Witness ==
    /\ Finished("send_sms")
    /\ session.res.kind = "ok"
    /\ session.tried = <<1, 2>>

\* the exchange of the PDU strategy as far as it went: the mode switch accepted, the
\* compose prompt received, and no command of it failed
PduExchangeGood ==
    /\ Len(session.exchange) >= 2
    /\ \A i \in 1..Len(session.exchange) : ~Raised(session.exchange[i])
    /\ InResponse(<<"O","K">>, session.exchange[1].lines)
    /\ InResponse(<<">">>, session.exchange[2].lines)

\* C13: when strategies 1 and 2 of send_sms failed and the transport accepts the
\* mode switch, gives the compose prompt and acknowledges, send_sms returns success
\* through strategy 3, having started strategies 1 and 2 once each, in order
C13_PduSuccess ==
    (Finished("send_sms") /\ session.tried = <<1, 2, 3>> /\ PduExchangeGood)
        => session.res.kind = "ok"

\* the PDU strategy ran and its AT+CMGF=0 reached the transport: the command was
\* answered, or timed out after it was written
PduModeWritten ==
    /\ \E i \in 1..Len(session.tried) : session.tried[i] = 3
    /\ Len(session.exchange) >= 1
    /\ session.exchange[1].kind \in {"response", "ATCommandTimeoutException"}

\* C14: once the PDU strategy of send_sms has written AT+CMGF=0 to the transport,
\* AT+CMGF=1 is issued before the strategy exits, on every exit path
C14_TextModeRestored ==
    (Finished("send_sms") /\ PduModeWritten)
        => session.issued[Len(session.issued)] = CommandOf["sms_m3_restore"]

PreflightSteps ==
    {"sms_at", "sms_cpin", "sms_creg", "sms_atz", "sms_atf", "sms_cmgf", "sms_cscs", "sms_csq",
     "ussd_at", "ussd_cpin", "ussd_creg", "ussd_atz", "ussd_atf", "ussd_ira", "ussd_gsm"}

\* the pre-flight steps whose exception ends the operation
FatalSteps == {"sms_at", "sms_cmgf", "ussd_at"}

UssdFormatSteps == {"ussd_m1", "ussd_m2", "ussd_m3"}

\* the AT+CUSD commands of the three request formats, among those issued
FormatCommands ==
    SelectSeq(session.issued, LAMBDA c : c \in {CommandOf[pc] : pc \in UssdFormatSteps})

\* a response whose +CUSD line carries the payload Hi, and one whose payload is empty
HiCusd ==
    << <<"+","C","U","S","D",":"," ","0",",","\"","H","i","\"",",","1","5">>, <<"O","K">> >>
EmptyCusd ==
    << <<"+","C","U","S","D",":"," ","2",",","\"","\"",",","1","5">>, <<"O","K">> >>

\* send_ussd starts its request formats in the order encoded-quoted, hex-quoted,
\* unquoted, each at most once; a response with a non-empty +CUSD payload ends the
\* call with that payload and no further command; a raised command, an ERROR
\* response, a response without payload or with an empty one is followed by the next
\* format, or after the third by the failure "All USSD sending methods failed"
UssdFormatPhase ==
    /\ []((session.call = "send_ussd" /\ session.pc # "idle") =>
            /\ InOrder(session.tried)
            /\ FormatCommands = [i \in 1..Len(session.tried) |->
                  <<CommandOf["ussd_m1"], CommandOf["ussd_m2"], CommandOf["ussd_m3"]>>[i]]
            /\ (session.res.kind = "ok" => Len(session.tried) >= 1 /\ session.response # <<>>)
            /\ (Failed("All USSD sending methods failed") => session.tried = <<1, 2, 3>>))
    /\ [][ ( /\ session.call = "send_ussd"
             /\ session.pc \in UssdFormatSteps
             /\ session'.pc # session.pc )
           => IF session'.last.kind = "response" /\ session'.last.lines = HiCusd
              THEN /\ session'.pc = "done" /\ session'.res.kind = "ok"
                   /\ session'.response = <<"H", "i">>
                   /\ session'.tried = session.tried
                   /\ session'.issued = session.issued
              ELSE IF \/ Raised(session'.last)
                      \/ session'.last.lines = EmptyCusd
                      \/ ~InResponse(<<"+","C","U","S","D",":">>, session'.last.lines)
              THEN IF Len(session.tried) < 3
                   THEN /\ session'.pc \in UssdFormatSteps
                        /\ session'.tried = Append(session.tried, Len(session.tried) + 1)
                   ELSE /\ session'.pc = "done"
                        /\ session'.res.kind = "UssdException"
                        /\ session'.res.cause = "All USSD sending methods failed"
              ELSE session'.pc = "done" /\ session'.res.kind = "ok" ]_vars

CommandFailed(o) ==
    \/ Raised(o)
    \/ InResponse(<<"E","R","R","O","R">>, o.lines)
    \/ InResponse(<<"F","A","I","L">>, o.lines)

\* C17: in the character set negotiation of send_ussd, AT+CSCS="GSM" is requested
\* exactly when AT+CSCS="IRA" failed, by an ERROR/FAIL response or by a timeout, and
\* never when IRA was accepted
C17_GsmFallback ==
    [][ (session.pc = "ussd_ira" /\ session'.pc # session.pc)
        => (session'.pc = "ussd_gsm" <=> CommandFailed(session'.last)) ]_vars

\* the send_ussd calls of a get_balance in which no candidate matched
BalanceCalls == <<"*223#", "*100#", "*101#", "*102#", "*223#">>

BalanceCusd ==
    << <<"+","C","U","S","D",":"," ","0",",","\"","B","a","l","a","n","c","e","\"",",","1","5">>,
       <<"O","K">> >>

HasKeyword(text) == Contains(Lower(text), <<"b","a","l","a","n","c","e">>)

\* C18: get_balance sends the candidate codes in their fixed order, returns the
\* first response whose text contains the balance keyword without trying later
\* codes, goes on after a failed candidate, and when no candidate matched makes
\* exactly one more send_ussd call with the first code whose result it returns, or
\* whose failure it raises, whatever it is; at most 5 USSD operations per call
C18_BalanceCodes ==
    /\ []((session.call = "get_balance" /\ session.pc # "idle") =>
            /\ Len(session.codes) \in 1..5
            /\ session.codes = SubSeq(BalanceCalls, 1, Len(session.codes))
            /\ (session.pc = "done" /\ Len(session.codes) <= 4
                  => session.res.kind = "ok" /\ HasKeyword(session.response)))
    /\ [][ ( /\ session.call = "get_balance"
             /\ session.pc \in UssdFormatSteps
             /\ session' # session /\ session'.ticks = session.ticks
             /\ session'.last.kind = "response" )
           => /\ ( session'.last.lines = BalanceCusd
                     => /\ session'.pc = "done" /\ session'.res.kind = "ok"
                        /\ session'.codes = session.codes
                        /\ session'.issued = session.issued )
              /\ ( (session'.last.lines = HiCusd /\ Len(session.codes) <= 4)
                     => /\ session'.codes = Append(session.codes, BalanceCalls[Len(session.codes) + 1])
                        /\ session'.pc = "ussd_at" )
              /\ ( (session'.last.lines = HiCusd /\ Len(session.codes) = 5)
                     => /\ session'.pc = "done" /\ session'.res.kind = "ok"
                        /\ session'.response = <<"H", "i">> ) ]_vars
    /\ [][ ( /\ session.call = "get_balance"
             /\ session.pc \in UssdFormatSteps \cup {"ussd_at"}
             /\ session'.codes = session.codes
             /\ session'.pc = "done" /\ session'.res.kind # "ok" )
           => Len(session.codes) = 5 ]_vars

\* no candidate matched, and the fallback call's response was returned although it
\* has no keyword
C18_Witness ==
    /\ Finished("get_balance")
    /\ session.serial_open
    /\ Len(session.codes) = 5
    /\ session.res.kind = "ok"
    /\ ~HasKeyword(session.response)

\* C19: a get_sim_info call made less than 300 s after the last successful uncached
\* call returns the cached value and issues no command; a call made 300 s or more
\* after it issues a new query sequence that starts with AT+CPIN?
C19_CacheTtl ==
    [][ ( /\ session.pc = "idle"
          /\ session'.call = "get_sim_info"
          /\ session._sim_info_cache # "None" )
        => IF session.now - session._cache_timestamp < _cache_duration
           THEN /\ session'.pc = "done" /\ session'.cached /\ session'.res.kind = "ok"
                /\ session'.issued = <<>>
           ELSE /\ ~session'.cached
                /\ session'.issued = <<"AT+CPIN?">> ]_vars

CacheOf(s) == <<s._sim_info_cache, s._cache_timestamp>>

SimQueries == <<"AT+CPIN?", "AT+CIMI", "AT+CCID", "AT+CNUM", "AT+CSQ", "AT+COPS?">>

\* C21: once the SIM-ready check has passed, no outcome of a field query (timeout,
\* ERROR response, value of an unexpected format) makes get_sim_info fail: all the
\* field queries are issued, and the result is returned and cached
C21_FieldsBestEffort ==
    (Finished("get_sim_info") /\ ~session.cached /\ Len(session.issued) >= 2)
        => /\ session.res.kind = "ok"
           /\ session.issued = SimQueries
           /\ session._sim_info_cache = "SimInfo"
           /\ session._cache_timestamp = session.now

Round(n, d) == (2 * n + d) \div (2 * d)

\* C23: in get_status and get_sim_info a CSQ reading of 99 is reported as unknown
\* (None), 0 as 0, 31 as 100, and every other reading csq in 0..31 as
\* round(csq * 100 / 31) clamped to 100
C23_SignalMapping ==
    calc.fn = "signal_strength" =>
        LET csq == ToInt(calc.src)
            r == Round(csq * 100, 31)
        IN  /\ (csq = 99 => calc.out = NoSignal)
            /\ (csq = 0 => calc.out = 0)
            /\ (csq = 31 => calc.out = 100)
            /\ (csq \in 1..30 => calc.out = IF r < 100 THEN r ELSE 100)

\* C24: for every text s of characters of the GSM 7-bit table (its lower-case and
\* accented letters included) decode_from_7bit_gsm(encode_as_7bit_gsm(s)) is s
\* upper-cased; every character outside the table becomes one space under
\* encode_as_7bit_gsm, which never fails
C24_CodecRoundTrip ==
    /\ (calc.fn = "decode_from_7bit_gsm" /\ \A i \in 1..Len(calc.src) : calc.src[i] \in GSM_7BIT_CHARS)
          => calc.out = Upper(calc.src)
    /\ calc.fn = "encode_as_7bit_gsm"
          => /\ Len(calc.out) = Len(calc.src)
             /\ \A i \in 1..Len(calc.src) :
                   calc.src[i] \notin GSM_7BIT_CHARS => calc.out[i] = " "

\* C25: sanitize_for_ussd returns exactly the input's characters from
\* [0-9*#+A-Za-z], in their order, upper-cased: the output has characters from
\* [0-9*#+A-Z] only, sanitizing it again changes nothing, and "Hello *123#!!" gives
\* "HELLO*123#"
C25_Sanitize ==
    calc.fn = "sanitize_for_ussd" =>
        LET kept == SelectSeq(calc.src, LAMBDA c : c \in {"a", "Z", "1", "*", "H", "e", "l", "o", "2", "3", "#"})
            capital(c) == CASE c = "a" -> "A" [] c = "e" -> "E" [] c = "l" -> "L"
                            [] c = "o" -> "O" [] OTHER -> c
        IN  /\ calc.out = [i \in 1..Len(kept) |-> capital(kept[i])]
            /\ \A i \in 1..Len(calc.out) :
                  calc.out[i] \in {"A", "Z", "1", "*", "H", "E", "L", "O", "2", "3", "#"}
            /\ sanitize_for_ussd(calc.out) = calc.out
            /\ (calc.src = <<"H","e","l","l","o"," ","*","1","2","3","#","!","!">>
                  => calc.out = <<"H","E","L","L","O","*","1","2","3","#">>)

\* the sample was sanitized
C25_Witness ==
    /\ calc.fn = "sanitize_for_ussd"
    /\ Len(calc.src) = 13
    /\ calc.out = <<"H","E","L","L","O","*","1","2","3","#">>

\* C26: send_sms uses a number that starts with + or 00 unchanged; otherwise it
\* replaces a leading 0 by +213 and puts +213 before a number without leading 0; the
\* number handed to the compose commands starts with + or 00, and normalizing it
\* again changes nothing
C26_NumberNormalized ==
    calc.fn = "NormalizeNumber" =>
        LET n == calc.src
            plus == Len(n) >= 1 /\ n[1] = "+"
            zeros == Len(n) >= 2 /\ n[1] = "0" /\ n[2] = "0"
            zero == Len(n) >= 1 /\ n[1] = "0"
        IN  /\ (plus \/ zeros) => calc.out = n
            /\ (~plus /\ ~zeros /\ zero) => calc.out = <<"+", "2", "1", "3">> \o Tail(n)
            /\ (~plus /\ ~zero) => calc.out = <<"+", "2", "1", "3">> \o n
            /\ \/ calc.out[1] = "+"
               \/ Len(calc.out) >= 2 /\ calc.out[1] = "0" /\ calc.out[2] = "0"
            /\ NormalizeNumber(calc.out) = calc.out

\* a local number with its leading zero was given
C26_Witness ==
    /\ calc.fn = "NormalizeNumber"
    /\ calc.src = <<"0", "5", "5">>
    /\ calc.out = <<"+", "2", "1", "3", "5", "5">>

\* C27: the connection sequence succeeds whenever the transport opens and AT returns
\* OK: every command of the configuration batch is issued once in the listed order,
\* a failing configuration or modem-info command neither ends the sequence nor fails
\* the connect; when AT does not return OK the connect fails and the session is not
\* marked initialized
C27_ConnectSequence ==
    /\ [](Finished("_connect_modem_to_port") /\ session.serial_open =>
            IF session.res = Ok
            THEN /\ session.issued =
                        <<"AT">> \o config_commands \o <<"AT+CGMM", "AT+CGMR", "AT+CGSN">>
                 /\ session.is_initialized
            ELSE /\ session.issued = <<"AT">>
                 /\ ~session.is_initialized)
    /\ [][session.pc = "conn_at" /\ session'.pc # "conn_at" =>
            IF ~Raised(session'.last) /\ InResponse(<<"O","K">>, session'.last.lines)
            THEN session'.pc = "conn_config"
            ELSE session'.pc = "done" /\ session'.res.kind = "MultiModemException"]_vars

\* the hardware filter: a known vendor id, or a known keyword in the description
\* whatever its case
MatchesFilter(port) ==
    \/ port.vid \in {4817, 6610, 7326}
    \/ \E k \in huawei_keywords : Contains(Lower(port.description), k)

FilteredPorts == SelectSeq(comports, LAMBDA port : MatchesFilter(port))

\* C28: when some enumerated port matches the hardware filter, detect_modems probes
\* the matching ports and no other, returns the ids of those that responded to the
\* probe and of no other port, and records each of them in the registry when it
\* has responded
C28_DetectsMatchingResponsive ==
    /\ [](\A t \in Tasks :
            Done(t, "detect_modems") /\ FilteredPorts # <<>> =>
                /\ Len(task[t].probed) = Len(FilteredPorts)
                /\ \A i \in 1..Len(FilteredPorts) :
                       task[t].probed[i][1] = FilteredPorts[i].device
                /\ task[t].found =
                       [i \in 1..Len(SelectSeq(task[t].probed, LAMBDA p : p[2])) |->
                           ModemId(SelectSeq(task[t].probed, LAMBDA p : p[2])[i][1])])
    /\ [][\A t \in Tasks :
            Len(task'[t].probed) > Len(task[t].probed) =>
                LET p == task'[t].probed[Len(task'[t].probed)] IN
                p[2] => /\ ModemId(p[1]) \in DOMAIN modem_info'
                        /\ modem_info'[ModemId(p[1])].port = p[1]]_vars

\* a detection returned while one matching port had responded and another had not
C28_Witness ==
    \E t \in Tasks :
        /\ Done(t, "detect_modems")
        /\ task[t].probed = << <<1, TRUE>>, <<2, FALSE>>, <<3, TRUE>> >>
        /\ task[t].found = <<ModemId(1), ModemId(3)>>

\* C29: when no enumerated port matches the filter, detect_modems probes every
\* enumerated port as a last resort (and returns those that respond)
C29_LastResortProbe ==
    [][\A t \in Tasks :
          /\ task[t].pc = "idle"
          /\ task'[t].call = "detect_modems"
          /\ comports # <<>>
          /\ FilteredPorts = <<>>
          => /\ task'[t].pc = "probing"
             /\ task'[t].todo = <<1>>]_vars

\* C30: detect_modems connects nothing: no step of it changes the active map, the
\* live sessions or the list of active ids, and in the registry it only adds or
\* replaces the entries of the modems it finds
C30_DetectionFrame ==
    [][\A t \in Tasks :
          /\ task'[t] # task[t]
          /\ task[t].call = "detect_modems" \/ task'[t].call = "detect_modems"
          => /\ modems' = modems
             /\ active_modem_ids' = active_modem_ids
             /\ DOMAIN modem_info \subseteq DOMAIN modem_info'
             /\ \A id \in DOMAIN modem_info :
                   id \notin {task'[t].found[i] : i \in 1..Len(task'[t].found)} =>
                       modem_info'[id].port = modem_info[id].port]_vars

\* a detection found a modem while another modem had a live session and a registry
\* entry
C30_Witness ==
    \E t \in Tasks :
        /\ Done(t, "detect_modems")
        /\ task[t].found # <<>>
        /\ modems # <<>>
        /\ \E id \in DOMAIN modem_info :
              id \notin {task[t].found[i] : i \in 1..Len(task[t].found)}

\* the ids that the cleanup call of task t has still to pass to disconnect_modem
Pending(t) ==
    IF task[t].call = "cleanup" /\ task[t].pc = "disconnect_wait"
    THEN {task[t].id} \cup {task[t].todo[i] : i \in 1..Len(task[t].todo)}
    ELSE {}

\* the sessions that the cleanup call of task t will leave active
Leftover(t) ==
    IF task[t].call = "cleanup" THEN KeySet(modems) \ Pending(t) ELSE {}

\* C31: cleanup passes every session that is active when it starts to
\* disconnect_modem, goes on after a disconnect that failed and returns normally,
\* always ends, and leaves active only sessions that a connect registered while it
\* ran (none when no connect runs concurrently); it keeps every registry entry
C31_Cleanup ==
    /\ [](\A t \in Tasks : Done(t, "cleanup") => task[t].res = Ok /\ task[t].todo = <<>>)
    /\ [][\A t \in Tasks :
             task'[t].call = "cleanup" =>
                /\ Leftover(t)' \subseteq Leftover(t) \cup (KeySet(modems') \ KeySet(modems))
                /\ task'[t] # task[t] =>
                      /\ DOMAIN modem_info' = DOMAIN modem_info
                      /\ \A id \in DOMAIN modem_info :
                            modem_info'[id].port = modem_info[id].port]_vars
    /\ \A t \in Tasks : (task[t].call = "cleanup") ~> Done(t, "cleanup")

\* a cleanup has ended with no session left, the registry intact, and the other
\* task still inside an operation on a session that was closed under it
C31_Witness ==
    \E t \in Tasks :
        /\ Done(t, "cleanup")
        /\ modems = <<>>
        /\ active_modem_ids = <<>>
        /\ \E id \in DOMAIN modem_info : id # ModemId(1)
        /\ \E u \in Tasks : task[u].pc = "op_wait" /\ task[u].sess = "closed"

\* C32: a per-modem operation on an id that is active never takes the coordinator
\* lock: none of its steps, from the call to the return, changes the lock or waits
\* for it, whoever holds the lock and whatever runs on another modem, and none
\* changes what another task is doing
C32_OpsIndependent ==
    [][\A t \in Tasks :
          /\ task'[t].pc # task[t].pc
          /\ task'[t].call \in PerModemOps
          /\ task[t].pc \in {"idle", "op_wait", "op_run"}
          /\ task[t].pc = "idle" => Has(modems, task'[t].id)
          => /\ lock' = lock
             /\ t \notin lock.holder
             /\ \A i \in 1..Len(lock.waiters) : lock.waiters[i] # t
             /\ \A u \in Tasks \ {t} : task'[u] = task[u]]_vars

\* an operation on an active modem has ended normally while the other task holds the
\* lock inside the connect sequence of another modem
C32_Witness ==
    \E t, u \in Tasks :
        /\ Done(t, "get_modem_status")
        /\ task[t].res = Ok
        /\ task[u].pc = "connecting"
        /\ task[u].id # task[t].id
        /\ lock.holder = {u}
        /\ {t, u} \in overlap

\* C33: close is idempotent: after close the session has no open transport and is
\* not initialized; the transport's close is called only when the session has an
\* open transport, hence once per opened transport; a close of a session without
\* transport that is not initialized raises nothing and leaves the state as it was
C33_CloseIdempotent ==
    [][session.pc = "idle" /\ session'.call = "close" =>
          /\ session'.pc = "done"
          /\ session'.res = Ok
          /\ ~session'.serial_open
          /\ ~session'.is_initialized
          /\ session'.issued =
                IF session.serial_open THEN <<"serial_connection.close()">> ELSE <<>>
          /\ ~session.serial_open /\ ~session.is_initialized =>
                session' = [session EXCEPT !.pc = "done", !.call = "close", !.res = Ok]
          /\ session'._sim_info_cache = session._sim_info_cache
          /\ session'._cache_timestamp = session._cache_timestamp]_vars

\* close was called on a session that had filled its SIM cache over a transport and
\* has none any more: there was nothing to close
C33_Witness ==
    /\ Finished("close")
    /\ session.issued = <<>>
    /\ session._sim_info_cache = "SimInfo"
    /\ ~session.serial_open
    /\ ~session.is_initialized

\* C34: get_status on a ready session issues all its queries whatever fails: the
\* result is connected, and AT+CSQ, AT+COPS? and AT+CREG? have all been sent, also
\* after a failed AT+COPS?
C34_StatusQueriesIndependent ==
    Finished("get_status") /\ session.is_initialized /\ session.serial_open =>
        /\ session.status.connected = TRUE
        /\ Len(session.issued) >= 3
        /\ SubSeq(session.issued, 1, 3) = <<"AT+CSQ", "AT+COPS?", "AT+CREG?">>

\* C35: no transport leak: outside a running connect sequence, a session object with
\* an open transport is registered in the active map; in particular a connect that
\* has failed holds no open transport
C35_NoTransportLeak ==
    \A t \in Tasks :
        task[t].sess = "open" /\ task[t].pc # "connecting" => Has(modems, task[t].id)

\* C36: of two per-modem operations issued concurrently for a registered id that is
\* not connected, the one that gets the lock after the other has connected the modem
\* goes on to its session operation on that one session instead of failing
C36_ConnectOnDemandConcurrent ==
    [][\A t \in Tasks :
          /\ task[t].pc = "connect_wait"
          /\ task'[t].pc # "connect_wait"
          /\ task[t].call \in PerModemOps
          /\ Has(modems, task[t].id)
          => /\ task'[t].pc = "op_wait"
             /\ task'[t].sess = "open"
             /\ modems' = modems]_vars

\* C37: get_all_modems_status does not fail because a connect or a disconnect
\* changes the active map while it waits for the status of a session: it returns
\* normally
C37_AllStatusSurvives ==
    \A t \in Tasks : Done(t, "get_all_modems_status") => task[t].res = Ok

\* C38: detect_modems never probes (opens a transport on, and writes AT, ATZ, ATI to)
\* the port of a modem that has a live session
C38_NoProbeOfLivePort ==
    \A t \in Tasks : task[t].pc = "probing" => ~Has(modems, task[t].id)

\* task t is inside `async with self._lock`, or waits to enter it
LockPhase(t) == task[t].pc \in {"connect_wait", "connecting", "disconnect_wait"}

\* C39: the coordinator lock cannot deadlock: a task never waits for the lock while it
\* holds it, only a task inside connect_modem or disconnect_modem holds it (every
\* exit path has released it), and, every command attempt ending, each connect_modem,
\* disconnect_modem, cleanup and connect on demand gets through the lock and ends
C39_LockDeadlockFree ==
    /\ [](\A t \in Tasks :
            /\ t \in lock.holder => LockPhase(t)
            /\ t \in lock.holder => \A i \in 1..Len(lock.waiters) : lock.waiters[i] # t
            /\ (\E i \in 1..Len(lock.waiters) : lock.waiters[i] = t) =>
                   task[t].pc \in {"connect_wait", "disconnect_wait"})
    /\ \A t \in Tasks : LockPhase(t) ~> ~LockPhase(t)
    /\ \A t \in Tasks :
          (task[t].call \in {"connect_modem", "disconnect_modem", "cleanup"}) ~>
              (task[t].pc = "done")

\* a disconnect_modem and a connect_modem that was refused have both ended after
\* running concurrently, and the lock is free
C39_Witness ==
    \E t, u \in Tasks :
        /\ Done(t, "disconnect_modem")
        /\ Done(u, "connect_modem")
        /\ task[u].res.kind # "ok"
        /\ {t, u} \in overlap
        /\ LockFree

\* C40: every id of the active map has a registry entry, and active_modem_ids lists
\* the keys of the active map, each once; so the connected count never exceeds the
\* total count and the validator of MultiModemStatus never rejects the result of
\* get_all_modems_status
C40_RegistryConsistent ==
    /\ KeySet(modems) \subseteq DOMAIN modem_info
    /\ active_modem_ids = Keys(modems)
    /\ \A i, j \in 1..Len(active_modem_ids) :
          active_modem_ids[i] = active_modem_ids[j] => i = j
    /\ Len(modems) <= Cardinality(DOMAIN modem_info)
    /\ \A t \in Tasks :
          Done(t, "get_all_modems_status") => task[t].res.cause # "ValidationError"

\* get_all_modems_status has returned the statuses of two live sessions while the
\* registry holds a third modem
C40_Witness ==
    \E t \in Tasks :
        /\ Done(t, "get_all_modems_status")
        /\ task[t].res = Ok
        /\ Len(task[t].found) = 2
        /\ Len(modems) = 2
        /\ Cardinality(DOMAIN modem_info) = 3

====
